---- MODULE Spec2Model ----
(***************************************************************************)
(* The `witness' lock-order verifier of sys/dev/hme/if_hme.c (lines 1730   *)
(* to 2909, the BSD/OS mutex_witness code) as a state machine.             *)
(*                                                                         *)
(* One action is one whole call of an entry point (witness_initialize,     *)
(* witness_init, witness_destroy, witness_lock, witness_unlock,            *)
(* witness_sleep), made by a lock primitive on behalf of a process.  The   *)
(* C functions are operators from a memory record (every global of the     *)
(* file, the three pools, the lock objects and the per-context lists) to   *)
(* a memory record, written in the order of the C statements.              *)
(*                                                                         *)
(* Pointers are indices into the pools (NULL == 0).  A chunk's array and   *)
(* its count are one sequence: slots at or above the count are never read  *)
(* by the code.  The pool sizes and chunk capacities are scaled down.      *)
(***************************************************************************)
EXTENDS Integers, Sequences, FiniteSets, TLC

NULL == 0
NoStr == ""

\* ------------------------------------------------------------ sizes
\* Scaled pool sizes (the file has 200, 800 and (MAXCPU + 1024) * 2) and
\* chunk capacities (the file has 6 for a child chunk).
WITNESS_COUNT == 7
WITNESS_CHILDCOUNT == 3
LOCK_CHILDCOUNT == 4
WITNESS_NCHILDREN == 2
\* Capacity of ll_children in struct lock_list_entry (sys/lock.h).
LOCK_NCHILDREN == 3
\* Processes; process p runs on processor p.
NPROC == 2
\* Deepest recursion the lock primitive is driven to.
MaxRecurse == 1
\* Acquisition sites: file "file.c", lines 1..NSites.
NSites == 1
MaxDestroy == 1

Procs == 1..NPROC
Sites == 1..NSites
Witnesses == 1..WITNESS_COUNT
ChildChunks == 1..WITNESS_CHILDCOUNT
LockChunks == 1..LOCK_CHILDCOUNT

\* ------------------------------------------------------------ lock classes
\* lock_class_mtx_sleep, lock_class_mtx_spin, lock_class_sx and their lc_flags.
lc_flags(class) ==
    CASE class = "mtx_sleep" -> {"LC_SLEEPLOCK", "LC_RECURSABLE"}
      [] class = "mtx_spin" -> {"LC_SPINLOCK", "LC_RECURSABLE"}
      [] class = "sx" -> {"LC_SLEEPLOCK", "LC_SLEEPABLE"}
      [] OTHER -> {}

\* ------------------------------------------------------------ policy tables
\* order_lists, scaled: one sleep chain and one spin chain, each ended by a
\* { NULL, NULL } entry.
order_lists ==
    << << [w_name |-> "Giant", w_class |-> "mtx_sleep"],
          [w_name |-> "process lock", w_class |-> "mtx_sleep"] >>,
       << [w_name |-> "sio", w_class |-> "mtx_spin"],
          [w_name |-> "sched lock", w_class |-> "mtx_spin"] >> >>

dup_list == << "process lock" >>

blessed_list == << >>

blessed_count == Len(blessed_list)

witness_skipspin == 0

\* ------------------------------------------------------------ lock objects
\* A lock object as its owner sets it up before witness_init: lo_name,
\* lo_class and the LO_ flags the primitive's init passes.  early: the lock
\* is set up before witness_initialize runs.
Lk(name, class, flags, early) ==
    [lo_name |-> name, lo_class |-> class, flags |-> flags, early |-> early]

MtxS(name) == Lk(name, "mtx_sleep", {"LO_WITNESS"}, FALSE)
MtxR(name) == Lk(name, "mtx_sleep", {"LO_WITNESS", "LO_RECURSABLE"}, FALSE)
Spin(name) == Lk(name, "mtx_spin", {"LO_WITNESS"}, FALSE)
Sx(name) == Lk(name, "sx", {"LO_WITNESS", "LO_SLEEPABLE"}, FALSE)
GiantLk == Lk("Giant", "mtx_sleep", {"LO_WITNESS", "LO_RECURSABLE"}, TRUE)

UnivAB == << MtxS("A"), MtxS("A"), MtxS("B") >>
UnivABC == << MtxS("A"), MtxS("B"), MtxS("C") >>
UnivGiant == << GiantLk, MtxS("process lock"), MtxS("process lock") >>
UnivGX == << GiantLk, MtxS("process lock"), MtxS("X") >>
UnivSpin == << Spin("sio"), Spin("sched lock"), Sx("G") >>
UnivABCD == << MtxS("A"), MtxS("B"), MtxS("C"), MtxS("D") >>

VARIABLES
    locks,              \* the lock objects of this run (fixed by Init)
    witness_watch,      \* debug.witness_watch (fixed by Init)
    witness_cold, witness_dead, panicstr,
    w_mtx,              \* 1 while the internal spin mutex is held
    w_free, w_all, w_spin, w_sleep,
    w_child_free, w_lock_list_free,
    w_data, w_childdata, w_locklistdata,
    all_locks, lock_cur_cnt, lock_max_cnt,
    lo,                 \* per lock object: lo_flags, lo_witness, lo_file, lo_line
    p_sleeplocks, spinlocks,
    mtx_owner, mtx_recurse,   \* the lock primitive's own state
    mtx_err,            \* w_mtx was released while not held, or taken twice
    reports,            \* every diagnostic printed so far, with its count
    ndestroy            \* the calls of witness_destroy so far

vars == << locks, witness_watch, witness_cold, witness_dead, panicstr, w_mtx,
           w_free, w_all, w_spin, w_sleep, w_child_free, w_lock_list_free,
           w_data, w_childdata, w_locklistdata, all_locks, lock_cur_cnt,
           lock_max_cnt, lo, p_sleeplocks, spinlocks, mtx_owner, mtx_recurse,
           mtx_err, reports, ndestroy >>

Locks == DOMAIN locks

\* ------------------------------------------------------------ memory record
\* The variables as one record; out collects what the running call prints,
\* and unheld the shared fields it writes while w_mtx is not held.
Mem ==
    [ locks |-> locks, witness_watch |-> witness_watch,
      witness_cold |-> witness_cold, witness_dead |-> witness_dead,
      panicstr |-> panicstr, w_mtx |-> w_mtx,
      w_free |-> w_free, w_all |-> w_all, w_spin |-> w_spin, w_sleep |-> w_sleep,
      w_child_free |-> w_child_free, w_lock_list_free |-> w_lock_list_free,
      w_data |-> w_data, w_childdata |-> w_childdata,
      w_locklistdata |-> w_locklistdata,
      all_locks |-> all_locks, lock_cur_cnt |-> lock_cur_cnt,
      lock_max_cnt |-> lock_max_cnt, lo |-> lo,
      p_sleeplocks |-> p_sleeplocks, spinlocks |-> spinlocks,
      mtx_owner |-> mtx_owner, mtx_recurse |-> mtx_recurse,
      mtx_err |-> mtx_err, out |-> << >>, unheld |-> {} ]

ZeroWitness ==
    [ w_name |-> NoStr, w_class |-> NoStr, w_children |-> NULL,
      w_file |-> NoStr, w_line |-> 0, w_level |-> 0, w_refcount |-> 0,
      w_Giant_squawked |-> FALSE, w_other_squawked |-> FALSE,
      w_same_squawked |-> FALSE ]

ZeroChild == [ wcl_next |-> NULL, wcl_children |-> << >> ]

ZeroLockList == [ ll_next |-> NULL, ll_children |-> << >> ]

ZeroLock == [ lo_flags |-> {}, lo_witness |-> NULL, lo_file |-> NoStr, lo_line |-> 0 ]

\* A call's result: the memory after it and the value it returns.
R(m, ret) == [m |-> m, ret |-> ret]

\* panic(): the first panic sets panicstr; the system stops.
panic(m, msg) == IF m.panicstr = NoStr THEN [m EXCEPT !.panicstr = msg] ELSE m

printf(m, rep) == [m EXCEPT !.out = Append(@, rep)]

\* A store to the shared field in memory m: noted when w_mtx is not held.
Shared(m, field) ==
    IF m.w_mtx = 1 THEN m ELSE [m EXCEPT !.unheld = @ \cup {field}]

mtx_lock_spin(m) ==
    IF m.w_mtx = 1 THEN [m EXCEPT !.mtx_err = TRUE] ELSE [m EXCEPT !.w_mtx = 1]

mtx_unlock_spin(m) ==
    IF m.w_mtx = 0 THEN [m EXCEPT !.mtx_err = TRUE] ELSE [m EXCEPT !.w_mtx = 0]

\* Index of the first element of s satisfying Test, or 0.
FirstIdx(s, Test(_)) ==
    LET I == { i \in DOMAIN s : Test(s[i]) }
    IN IF I = {} THEN 0 ELSE CHOOSE i \in I : \A j \in I : i <= j

Remove(s, x) == SelectSeq(s, LAMBDA y : y # x)

Range(s) == { s[i] : i \in DOMAIN s }

\* ------------------------------------------------------------ pools
\* witness_get that treats an empty pool as fatal.
witness_getPanic(m) ==
    IF m.w_free = << >>
    THEN R(panic(mtx_unlock_spin([m EXCEPT !.witness_dead = 1]),
                 "witness_get: witness exhausted"), NULL)
    ELSE LET w == Head(m.w_free)
         IN R([m EXCEPT !.w_free = Tail(@), !.w_data[w] = ZeroWitness], w)

\* witness_get that keeps w_mtx on the exhaustion path.
witness_getHeld(m) ==
    IF m.w_free = << >>
    THEN R(printf([m EXCEPT !.witness_dead = 1],
                  [kind |-> "exhausted", w |-> NULL, w1 |-> NULL,
                   n |-> "witness_get", n1 |-> NoStr]), NULL)
    ELSE LET w == Head(m.w_free)
         IN R(Shared([m EXCEPT !.w_free = Tail(@), !.w_data[w] = ZeroWitness],
                     "w_free"), w)

witness_get(m) ==
    IF m.w_free = << >>
    THEN R(printf(mtx_unlock_spin([m EXCEPT !.witness_dead = 1]),
                  [kind |-> "exhausted", w |-> NULL, w1 |-> NULL,
                   n |-> "witness_get", n1 |-> NoStr]), NULL)
    ELSE LET w == Head(m.w_free)
         IN R(Shared([m EXCEPT !.w_free = Tail(@), !.w_data[w] = ZeroWitness],
                     "w_free"), w)

witness_free(m, w) == [m EXCEPT !.w_free = << w >> \o @]

witness_child_get(m) ==
    LET wcl == m.w_child_free
    IN IF wcl = NULL
       THEN R(printf(mtx_unlock_spin([m EXCEPT !.witness_dead = 1]),
                     [kind |-> "exhausted", w |-> NULL, w1 |-> NULL,
                      n |-> "witness_child_get", n1 |-> NoStr]), NULL)
       ELSE R(Shared([m EXCEPT !.w_child_free = m.w_childdata[wcl].wcl_next,
                               !.w_childdata[wcl] = ZeroChild], "w_child_free"),
              wcl)

\* witness_child_free that chains the chunk during startup only, and
\* drops it once the verifier is running.
witness_child_freeLost(m, wcl) ==
    IF m.witness_cold = 0
    THEN [m EXCEPT !.w_childdata[wcl] = [wcl_next |-> NULL, wcl_children |-> << >>]]
    ELSE [m EXCEPT !.w_childdata[wcl] = [wcl_next |-> m.w_child_free,
                                         wcl_children |-> << >>],
                   !.w_child_free = wcl]

\* The contents of a free chunk are never read (bzero on the next get):
\* they are cleared here, so that equal states are one state.
witness_child_free(m, wcl) ==
    [m EXCEPT !.w_childdata[wcl] = [wcl_next |-> m.w_child_free,
                                    wcl_children |-> << >>],
              !.w_child_free = wcl]

witness_lock_list_get(m) ==
    LET m1 == mtx_lock_spin(m)
        lle == m1.w_lock_list_free
    IN IF lle = NULL
       THEN R(printf(mtx_unlock_spin([m1 EXCEPT !.witness_dead = 1]),
                     [kind |-> "exhausted", w |-> NULL, w1 |-> NULL,
                      n |-> "witness_lock_list_get", n1 |-> NoStr]), NULL)
       ELSE R([mtx_unlock_spin(
                  Shared([m1 EXCEPT !.w_lock_list_free = m1.w_locklistdata[lle].ll_next],
                         "w_lock_list_free"))
               EXCEPT !.w_locklistdata[lle] = ZeroLockList], lle)

witness_lock_list_free(m, lle) ==
    LET m1 == mtx_lock_spin(m)
    IN mtx_unlock_spin(
         Shared([m1 EXCEPT !.w_locklistdata[lle] = [ll_next |-> m1.w_lock_list_free,
                                                    ll_children |-> << >>],
                           !.w_lock_list_free = lle], "w_lock_list_free"))

\* ------------------------------------------------------------ the order graph
\* The chunks of a child list, from the chunk wcl on.
RECURSIVE ChildChain(_, _)
ChildChain(m, wcl) ==
    IF wcl = NULL THEN << >>
    ELSE << wcl >> \o ChildChain(m, m.w_childdata[wcl].wcl_next)

RECURSIVE Flatten(_)
Flatten(ss) == IF ss = << >> THEN << >> ELSE Head(ss) \o Flatten(Tail(ss))

\* The children of a witness in the order the loops of the file visit them.
ChildrenOf(m, parent) ==
    LET ch == ChildChain(m, m.w_data[parent].w_children)
    IN Flatten([k \in DOMAIN ch |-> m.w_childdata[ch[k]].wcl_children])

isitmychild(m, parent, child) ==
    \E i \in DOMAIN ChildrenOf(m, parent) : ChildrenOf(m, parent)[i] = child

\* isitmydescendant recurses without a bound; depth counts the frames.  More
\* frames than there are witnesses means a cycle, on which the C recursion
\* does not return: the operator then answers found.
RECURSIVE Descend(_, _, _, _)
Descend(m, parent, child, depth) ==
    IF isitmychild(m, parent, child) THEN TRUE
    ELSE IF depth > WITNESS_COUNT THEN TRUE
    ELSE \E i \in DOMAIN ChildrenOf(m, parent) :
            Descend(m, ChildrenOf(m, parent)[i], child, depth + 1)

isitmydescendant(m, parent, child) == Descend(m, parent, child, 0)

\* MPASS(j < 1000) of line 2607: j counts the chunks of one child list.  The
\* limit stands to the chunk pool as 1000 stands to WITNESS_CHILDCOUNT (800).
DescendLimit == (WITNESS_CHILDCOUNT * 5) \div 4

\* The children that the loop of isitmydescendant visits before j reaches
\* the limit.
ChildrenInLimit(m, parent) ==
    LET ch == ChildChain(m, m.w_data[parent].w_children)
    IN Flatten([k \in 1..(IF Len(ch) < DescendLimit THEN Len(ch) ELSE DescendLimit)
                  |-> m.w_childdata[ch[k]].wcl_children])

\* isitmydescendant(parent, child) fails the assertion of line 2607 in this
\* call or in a call it makes before one of them returns 1.
RECURSIVE DescendTrips(_, _, _, _)
DescendTrips(m, parent, child, depth) ==
    IF isitmychild(m, parent, child) \/ depth > WITNESS_COUNT THEN FALSE
    ELSE LET cs == ChildrenInLimit(m, parent)
         IN \/ \E i \in DOMAIN cs :
                  /\ DescendTrips(m, cs[i], child, depth + 1)
                  /\ \A j \in 1..(i - 1) : ~Descend(m, cs[j], child, depth + 1)
            \/ /\ Len(ChildChain(m, m.w_data[parent].w_children)) > DescendLimit
               /\ \A j \in DOMAIN cs : ~Descend(m, cs[j], child, depth + 1)

\* isitmydescendant(parent, child) recurses deeper than there are witnesses
\* before a call returns 1: it is on a cycle and does not return.
RECURSIVE DescendRunaway(_, _, _, _)
DescendRunaway(m, parent, child, depth) ==
    IF isitmychild(m, parent, child) THEN FALSE
    ELSE IF depth > WITNESS_COUNT THEN TRUE
    ELSE \E i \in DOMAIN ChildrenOf(m, parent) :
            /\ DescendRunaway(m, ChildrenOf(m, parent)[i], child, depth + 1)
            /\ \A j \in 1..(i - 1) :
                  \/ ~Descend(m, ChildrenOf(m, parent)[j], child, depth + 1)
                  \/ DescendRunaway(m, ChildrenOf(m, parent)[j], child, depth + 1)

\* removechild that unlinks an emptied chunk and does not free it.
removechildLeak(m, parent, child) ==
    LET ch == ChildChain(m, m.w_data[parent].w_children)
        k == FirstIdx(ch, LAMBDA c : child \in Range(m.w_childdata[c].wcl_children))
    IN IF k = 0 THEN m
       ELSE LET wcl1 == ch[k]
                s == m.w_childdata[wcl1].wcl_children
                i == FirstIdx(s, LAMBDA x : x = child)
                count == Len(s) - 1
                s1 == IF count > i - 1
                      THEN SubSeq([s EXCEPT ![i] = s[Len(s)]], 1, count)
                      ELSE SubSeq(s, 1, count)
                m1 == [m EXCEPT !.w_childdata[wcl1].wcl_children = s1]
            IN IF count # 0 THEN m1
               ELSE IF k = 1
               THEN [m1 EXCEPT !.w_data[parent].w_children = m1.w_childdata[wcl1].wcl_next]
               ELSE [m1 EXCEPT !.w_childdata[ch[k - 1]].wcl_next =
                                   m1.w_childdata[wcl1].wcl_next]

removechild(m, parent, child) ==
    LET ch == ChildChain(m, m.w_data[parent].w_children)
        k == FirstIdx(ch, LAMBDA c : child \in Range(m.w_childdata[c].wcl_children))
    IN IF k = 0 THEN m
       ELSE LET wcl1 == ch[k]
                s == m.w_childdata[wcl1].wcl_children
                i == FirstIdx(s, LAMBDA x : x = child)
                count == Len(s) - 1
                s1 == IF count > i - 1
                      THEN SubSeq([s EXCEPT ![i] = s[Len(s)]], 1, count)
                      ELSE SubSeq(s, 1, count)
                m1 == [m EXCEPT !.w_childdata[wcl1].wcl_children = s1]
            IN IF count # 0 THEN m1
               ELSE LET next == m1.w_childdata[wcl1].wcl_next
                        m2 == IF k = 1
                              THEN [m1 EXCEPT !.w_data[parent].w_children = next]
                              ELSE [m1 EXCEPT !.w_childdata[ch[k - 1]].wcl_next = next]
                    IN witness_child_free(m2, wcl1)

\* witness_leveldescendents on the level array lv.
RECURSIVE witness_leveldescendents(_, _, _, _, _)
RECURSIVE LevelChildren(_, _, _, _, _)
witness_leveldescendents(m, lv, parent, level, depth) ==
    LET lv1 == IF lv[parent] < level THEN [lv EXCEPT ![parent] = level] ELSE lv
    IN IF depth > WITNESS_COUNT THEN lv1
       ELSE LevelChildren(m, lv1, ChildrenOf(m, parent), level + 1, depth + 1)

LevelChildren(m, lv, cs, level, depth) ==
    IF cs = << >> THEN lv
    ELSE LevelChildren(m, witness_leveldescendents(m, lv, Head(cs), level, depth),
                       Tail(cs), level, depth)

TypeList(m, w) ==
    IF "LC_SLEEPLOCK" \in lc_flags(m.w_data[w].w_class) THEN m.w_sleep ELSE m.w_spin

RECURSIVE LevelRoots(_, _, _)
LevelRoots(m, lv, ws) ==
    IF ws = << >> THEN lv
    ELSE LET w == Head(ws)
             list == TypeList(m, w)
         IN IF \E i \in DOMAIN list : isitmychild(m, list[i], w)
            THEN LevelRoots(m, lv, Tail(ws))
            ELSE LevelRoots(m, witness_leveldescendents(m, lv, w, 0, 0), Tail(ws))

\* witness_levelall that computes the levels and stores none of them.
LevelStoreNone(m, lv) == m

LevelStore(m, lv) ==
    [m EXCEPT !.w_data = [w \in Witnesses |-> [m.w_data[w] EXCEPT !.w_level = lv[w]]]]

witness_levelall(m) ==
    LevelStore(m, LevelRoots(m, [w \in Witnesses |->
                                    IF w \in Range(m.w_all) THEN 0
                                    ELSE m.w_data[w].w_level],
                             m.w_all))

\* Lines 2516 to 2526 of itismychild: put child in the first chunk of
\* parent's list that has room, or in a new chunk at the end of the list.
InsertLink(g, ch, parent, child) ==
    IF g.ret = NULL THEN R(g.m, 1)
    ELSE R([(IF ch = << >>
             THEN [g.m EXCEPT !.w_data[parent].w_children = g.ret]
             ELSE [g.m EXCEPT !.w_childdata[ch[Len(ch)]].wcl_next = g.ret])
            EXCEPT !.w_childdata[g.ret].wcl_children = << child >>], 0)

InsertChild(m, parent, child) ==
    LET ch == ChildChain(m, m.w_data[parent].w_children)
        k == FirstIdx(ch, LAMBDA c : Len(m.w_childdata[c].wcl_children) # WITNESS_NCHILDREN)
    IN IF k # 0
       THEN R([m EXCEPT !.w_childdata[ch[k]].wcl_children = Append(@, child)], 0)
       ELSE InsertLink(witness_child_get(m), ch, parent, child)

SameLockType(m, parent, child) ==
    lc_flags(m.w_data[parent].w_class) \cap {"LC_SLEEPLOCK", "LC_SPINLOCK"}
        = lc_flags(m.w_data[child].w_class) \cap {"LC_SLEEPLOCK", "LC_SPINLOCK"}

\* The pruning step that puts a removed child back only when the child has
\* no children of its own.
PruneAgainDrop(m1, parent, child) ==
    IF ChildrenOf(m1, child) # << >> THEN m1
    ELSE InsertChild(m1, parent, child).m

\* One iteration of the pruning loop (lines 2542 to 2547); the nested
\* itismychild runs with recursed set, so it only inserts.
PruneAgain(m1, parent, child) ==
    IF isitmydescendant(m1, parent, child) THEN m1
    ELSE IF ~SameLockType(m1, parent, child)
         THEN panic(m1, "itismychild: not the same lock type")
         ELSE InsertChild(m1, parent, child).m

\* The pruning loop that removes nothing.
PruneStepKeep(m, parent, child) == m

PruneStep(m, parent, child) ==
    IF ~isitmychild(m, parent, child) THEN m
    ELSE PruneAgain(removechild(m, parent, child), parent, child)

RECURSIVE PruneInner(_, _, _)
PruneInner(m, child, parents) ==
    IF parents = << >> \/ m.panicstr # NoStr THEN m
    ELSE PruneInner(PruneStep(m, Head(parents), child), child, Tail(parents))

RECURSIVE PruneOuter(_, _, _)
PruneOuter(m, children, list) ==
    IF children = << >> \/ m.panicstr # NoStr THEN m
    ELSE PruneOuter(PruneInner(m, Head(children), list), Tail(children), list)

\* itismychild that prunes the tree and leaves the levels as they were.
PruneTreeUnlevelled(ins, parent) ==
    IF ins.ret = 1 THEN R(ins.m, 1)
    ELSE R(PruneOuter(ins.m, TypeList(ins.m, parent), TypeList(ins.m, parent)), 0)

\* Lines 2527 to 2552: after the insertion ins, prune the tree and level it.
PruneTree(ins, parent) ==
    IF ins.ret = 1 THEN R(ins.m, 1)
    ELSE R(witness_levelall(PruneOuter(ins.m, TypeList(ins.m, parent),
                                       TypeList(ins.m, parent))), 0)

\* itismychild called with recursed == 0.
itismychild(m, parent, child) ==
    IF parent = NULL \/ child = NULL
    THEN R(panic(m, "itismychild: MPASS(child != NULL && parent != NULL)"), 0)
    ELSE IF ~SameLockType(m, parent, child)
    THEN R(panic(m, "itismychild: not the same lock type"), 0)
    ELSE PruneTree(InsertChild(m, parent, child), parent)

\* ------------------------------------------------------------ registry
Exhausted(fn) == [kind |-> "exhausted", w |-> NULL, w1 |-> NULL, n |-> fn, n1 |-> NoStr]

\* enroll that rebinds a name it finds with another class.
EnrollFoundRebind(m1, w, lock_class) ==
    R(mtx_unlock_spin([m1 EXCEPT !.w_data[w].w_refcount = @ + 1,
                                 !.w_data[w].w_class = lock_class]), w)

EnrollFound(m1, w, lock_class) ==
    IF lock_class # m1.w_data[w].w_class
    THEN R(panic(mtx_unlock_spin(Shared([m1 EXCEPT !.w_data[w].w_refcount = @ + 1],
                                        "w_refcount")),
                 "enroll: lock does not match earlier lock"), NULL)
    ELSE R(mtx_unlock_spin(Shared([m1 EXCEPT !.w_data[w].w_refcount = @ + 1],
                                  "w_refcount")), w)

\* enroll that puts every new witness on the sleep list.
EnrollInsertSleep(m2, w, lock_class) ==
    R(mtx_unlock_spin([m2 EXCEPT !.w_sleep = << w >> \o @]), w)

EnrollInsert(m2, w, lock_class) ==
    IF "LC_SPINLOCK" \in lc_flags(lock_class)
    THEN R(mtx_unlock_spin([m2 EXCEPT !.w_spin = << w >> \o @]), w)
    ELSE IF "LC_SLEEPLOCK" \in lc_flags(lock_class)
    THEN R(mtx_unlock_spin([m2 EXCEPT !.w_sleep = << w >> \o @]), w)
    ELSE R(panic(m2, "enroll: lock class is not sleep or spin"), NULL)

\* enroll that hands out a new Witness without a reference.
EnrollNewUncounted(g, description, lock_class) ==
    IF g.ret = NULL THEN R(g.m, NULL)
    ELSE EnrollInsert([g.m EXCEPT !.w_data[g.ret].w_name = description,
                                  !.w_data[g.ret].w_class = lock_class,
                                  !.w_data[g.ret].w_refcount = 0,
                                  !.w_all = << g.ret >> \o @], g.ret, lock_class)

EnrollNew(g, description, lock_class) ==
    IF g.ret = NULL THEN R(g.m, NULL)
    ELSE EnrollInsert(Shared([g.m EXCEPT !.w_data[g.ret].w_name = description,
                                         !.w_data[g.ret].w_class = lock_class,
                                         !.w_data[g.ret].w_refcount = 1,
                                         !.w_all = << g.ret >> \o @], "w_all"),
                      g.ret, lock_class)

\* enroll that takes a new spin name after startup.
EnrollSearchLax(m1, k, description, lock_class) ==
    IF k # 0 THEN EnrollFound(m1, m1.w_all[k], lock_class)
    ELSE EnrollNew(witness_get(m1), description, lock_class)

EnrollSearch(m1, k, description, lock_class) ==
    IF k # 0 THEN EnrollFound(m1, m1.w_all[k], lock_class)
    ELSE IF "LC_SPINLOCK" \in lc_flags(lock_class) /\ m1.witness_cold = 0
    THEN R(panic(m1, "enroll: spin lock not in order list"), NULL)
    ELSE EnrollNew(witness_get(m1), description, lock_class)

enroll(m, description, lock_class) ==
    IF m.witness_watch = 0 THEN R(m, NULL)
    ELSE IF "LC_SPINLOCK" \in lc_flags(lock_class) /\ witness_skipspin # 0
    THEN R(m, NULL)
    ELSE EnrollSearch(mtx_lock_spin(m),
                      FirstIdx(m.w_all, LAMBDA x : m.w_data[x].w_name = description),
                      description, lock_class)

InitSetWitness(e, lock) ==
    IF e.m.panicstr # NoStr THEN e.m
    ELSE [e.m EXCEPT !.lo[lock].lo_witness = e.ret]

InitEnroll(m1, lock) ==
    IF /\ m1.witness_cold = 0 /\ m1.witness_dead = 0
       /\ "LO_WITNESS" \in m1.lo[lock].lo_flags
    THEN InitSetWitness(enroll(m1, m1.locks[lock].lo_name, m1.locks[lock].lo_class),
                        lock)
    ELSE [m1 EXCEPT !.lo[lock].lo_witness = NULL]

\* witness_init that counts the lock before it looks at LO_INITIALIZED.
witness_initCountFirst(m, lock) ==
    LET m0 == [m EXCEPT !.lock_cur_cnt = @ + 1]
    IN IF "LO_INITIALIZED" \in m.lo[lock].lo_flags
       THEN panic(m0, "witness_init: lock is already initialized")
       ELSE InitEnroll([m EXCEPT !.all_locks = Append(@, lock),
                                 !.lo[lock].lo_flags = @ \cup {"LO_INITIALIZED"},
                                 !.lock_cur_cnt = @ + 1,
                                 !.lock_max_cnt = IF m.lock_cur_cnt + 1 > @
                                                  THEN m.lock_cur_cnt + 1 ELSE @],
                       lock)

witness_init(m, lock) ==
    LET class == m.locks[lock].lo_class
        flags == m.lo[lock].lo_flags
    IN IF "LO_INITIALIZED" \in flags
       THEN panic(m, "witness_init: lock is already initialized")
       ELSE IF "LO_RECURSABLE" \in flags /\ "LC_RECURSABLE" \notin lc_flags(class)
       THEN panic(m, "witness_init: lock can not be recursable")
       ELSE IF "LO_SLEEPABLE" \in flags /\ "LC_SLEEPABLE" \notin lc_flags(class)
       THEN panic(m, "witness_init: lock can not be sleepable")
       ELSE InitEnroll([m EXCEPT !.all_locks = Append(@, lock),
                                 !.lo[lock].lo_flags = @ \cup {"LO_INITIALIZED"},
                                 !.lock_cur_cnt = @ + 1,
                                 !.lock_max_cnt = IF m.lock_cur_cnt + 1 > @
                                                  THEN m.lock_cur_cnt + 1 ELSE @],
                       lock)

\* witness_destroy that turns the verifier back on.
witness_destroyRevive(m, lock) ==
    IF m.witness_cold = 1
    THEN panic(m, "witness_destroy: lock destroyed while witness_cold")
    ELSE IF "LO_INITIALIZED" \notin m.lo[lock].lo_flags
    THEN panic(m, "witness_destroy: lock is not initialized")
    ELSE IF "LO_LOCKED" \in m.lo[lock].lo_flags
    THEN panic(m, "witness_destroy: lock destroyed while held")
    ELSE LET w == m.lo[lock].lo_witness
             m1 == IF w = NULL THEN m
                   ELSE LET a == mtx_lock_spin(m)
                            b == [a EXCEPT !.w_data[w].w_refcount = @ - 1]
                            c == IF b.w_data[w].w_refcount = 0
                                 THEN [b EXCEPT !.w_data[w].w_name = "(dead)",
                                                !.w_data[w].w_file = "(dead)",
                                                !.w_data[w].w_line = 0]
                                 ELSE b
                        IN mtx_unlock_spin(c)
             m2 == [m1 EXCEPT !.lock_cur_cnt = @ - 1]
         IN IF lock \notin Range(m2.all_locks)
            THEN panic(m2, "page fault: STAILQ_REMOVE(&all_locks)")
            ELSE [m2 EXCEPT !.all_locks = Remove(@, lock),
                            !.lo[lock].lo_flags = @ \cap {"LO_INITIALIZED"},
                            !.witness_dead = 0]

\* w_refcount is a u_int, kept here as its signed residue modulo 2^32: the
\* code only adds one, subtracts one and compares with 0, and -1 stands for
\* 0xffffffff.
\* STAILQ_REMOVE of an object that is not on all_locks runs off the end of
\* the list: a NULL dereference.
witness_destroy(m, lock) ==
    IF m.witness_cold = 1
    THEN panic(m, "witness_destroy: lock destroyed while witness_cold")
    ELSE IF "LO_INITIALIZED" \notin m.lo[lock].lo_flags
    THEN panic(m, "witness_destroy: lock is not initialized")
    ELSE IF "LO_LOCKED" \in m.lo[lock].lo_flags
    THEN panic(m, "witness_destroy: lock destroyed while held")
    ELSE LET w == m.lo[lock].lo_witness
             m1 == IF w = NULL THEN m
                   ELSE LET a == mtx_lock_spin(m)
                            b == Shared([a EXCEPT !.w_data[w].w_refcount = @ - 1],
                                        "w_refcount")
                            c == IF b.w_data[w].w_refcount = 0
                                 THEN [b EXCEPT !.w_data[w].w_name = "(dead)",
                                                !.w_data[w].w_file = "(dead)",
                                                !.w_data[w].w_line = 0]
                                 ELSE b
                        IN mtx_unlock_spin(c)
             m2 == [m1 EXCEPT !.lock_cur_cnt = @ - 1]
         IN IF lock \notin Range(m2.all_locks)
            THEN panic(m2, "page fault: STAILQ_REMOVE(&all_locks)")
            ELSE [m2 EXCEPT !.all_locks = Remove(@, lock),
                            !.lo[lock].lo_flags = @ \cap {"LO_INITIALIZED"}]

\* ------------------------------------------------------------ held-lock lists
\* A lock_list pointer: &p->p_sleeplocks or PCPU_PTR(spinlocks).
SleepList(p) == [kind |-> "sleep", id |-> p]
SpinList(p) == [kind |-> "spin", id |-> p]

ListHead(m, lock_list) ==
    IF lock_list.kind = "sleep" THEN m.p_sleeplocks[lock_list.id]
    ELSE m.spinlocks[lock_list.id]

\* SetListHead storing the new head in the list of every context.
SetListHeadAll(m, lock_list, lle) ==
    IF lock_list.kind = "sleep"
    THEN [m EXCEPT !.p_sleeplocks = [q \in DOMAIN @ |-> lle]]
    ELSE [m EXCEPT !.spinlocks = [q \in DOMAIN @ |-> lle]]

SetListHead(m, lock_list, lle) ==
    IF lock_list.kind = "sleep" THEN [m EXCEPT !.p_sleeplocks[lock_list.id] = lle]
    ELSE [m EXCEPT !.spinlocks[lock_list.id] = lle]

RECURSIVE LockChain(_, _)
LockChain(m, lle) ==
    IF lle = NULL THEN << >>
    ELSE << lle >> \o LockChain(m, m.w_locklistdata[lle].ll_next)

Reverse(s) == [i \in DOMAIN s |-> s[Len(s) + 1 - i]]

\* The entries of a list in the order the scans of witness_lock and
\* witness_sleep visit them: head chunk first, each chunk from its last
\* entry down.
HeldScan(m, lock_list) ==
    LET ch == LockChain(m, ListHead(m, lock_list))
    IN Flatten([k \in DOMAIN ch |-> Reverse(m.w_locklistdata[ch[k]].ll_children)])

\* dup_ok comparing the wrong field of the witness with the list.
dup_okClass(m, w) == \E i \in DOMAIN dup_list : m.w_data[w].w_class = dup_list[i]

dup_ok(m, w) == \E i \in DOMAIN dup_list : m.w_data[w].w_name = dup_list[i]

blessed(m, w1, w2) ==
    \E i \in 1..blessed_count :
        \/ /\ m.w_data[w1].w_name = blessed_list[i].b_lock1
           /\ m.w_data[w2].w_name = blessed_list[i].b_lock2
        \/ /\ m.w_data[w1].w_name # blessed_list[i].b_lock1
           /\ m.w_data[w1].w_name = blessed_list[i].b_lock2
           /\ m.w_data[w2].w_name = blessed_list[i].b_lock1

IsGiant(m, lock) == m.locks[lock].lo_name = "Giant"

\* ------------------------------------------------------------ witness_lock
\* The entries of a list as the order check visits them, each with its chunk
\* and its index in the chunk.
ScanEntries(m, lock_list) ==
    LET ch == LockChain(m, ListHead(m, lock_list))
        One(c) == LET cs == m.w_locklistdata[c].ll_children
                  IN [x \in DOMAIN cs |->
                        [lle |-> c, i |-> Len(cs) - x, lock |-> cs[Len(cs) + 1 - x]]]
    IN Flatten([k \in DOMAIN ch |-> One(ch[k])])

\* The do-while of lines 2292 to 2303, which looks for an earlier lock of
\* witness w to print as "1st": the assertion that fails, or NoStr.
RECURSIVE FindFirst(_, _, _, _)
FindFirst(m, w, lle, i) ==
    LET cs == m.w_locklistdata[lle].ll_children
        lock2 == IF i + 1 \in DOMAIN cs THEN cs[i + 1] ELSE NULL
        next == m.w_locklistdata[lle].ll_next
    IN IF lock2 = NULL THEN "witness_lock: MPASS(lock2 != NULL)"
       ELSE IF m.lo[lock2].lo_witness = w THEN NoStr
       ELSE IF i - 1 = 0 /\ next # NULL
       THEN LET i2 == Len(m.w_locklistdata[next].ll_children) - 1
            IN IF i2 = 0 THEN "witness_lock: MPASS(i != 0)"
               ELSE IF i2 >= 0 THEN FindFirst(m, w, next, i2)
               ELSE NoStr
       ELSE IF i - 1 >= 0 THEN FindFirst(m, w, lle, i - 1)
       ELSE NoStr

DupReport(m, w, lock) ==
    [kind |-> "dup", w |-> w, w1 |-> w,
     n |-> m.locks[lock].lo_name, n1 |-> m.locks[lock].lo_name]

OrderReport(m, w, w1, lock, lock1) ==
    [kind |-> "order", w |-> w, w1 |-> w1,
     n |-> m.locks[lock].lo_name, n1 |-> m.locks[lock1].lo_name]

\* Lines 2288 to 2322: the report, then the search for the "1st" lock, whose
\* assertion failed names.
ViolationPrinted(m3, failed) ==
    IF failed # NoStr THEN panic(m3, failed) ELSE m3

ViolationSquawk(m2, w, lock, e) ==
    ViolationPrinted(
        printf(m2, OrderReport(m2, w, m2.lo[e.lock].lo_witness, lock, e.lock)),
        FindFirst(m2, w, e.lle, e.i))

\* Violation with the squawk flags set but never read.
ViolationRepeated(m, w, lock, e) ==
    LET lock1 == e.lock
        w1 == m.lo[lock1].lo_witness
    IN IF blessed(m, w, w1) THEN mtx_unlock_spin(m)
       ELSE IF IsGiant(m, lock1)
       THEN ViolationSquawk([mtx_unlock_spin(m)
                             EXCEPT !.w_data[w1].w_Giant_squawked = TRUE], w, lock, e)
       ELSE ViolationSquawk([mtx_unlock_spin(m)
                             EXCEPT !.w_data[w1].w_other_squawked = TRUE], w, lock, e)

\* Lines 2264 to 2322: the held lock e.lock has a witness that is a
\* descendant of w.  m holds w_mtx.
Violation(m, w, lock, e) ==
    LET lock1 == e.lock
        w1 == m.lo[lock1].lo_witness
        squawked == IF IsGiant(m, lock1) THEN m.w_data[w1].w_Giant_squawked
                    ELSE m.w_data[w1].w_other_squawked
    IN IF blessed(m, w, w1) THEN mtx_unlock_spin(m)
       ELSE IF squawked THEN mtx_unlock_spin(m)
       ELSE IF IsGiant(m, lock1)
       THEN ViolationSquawk(Shared([mtx_unlock_spin(m)
                                    EXCEPT !.w_data[w1].w_Giant_squawked = TRUE],
                                   "w_Giant_squawked"), w, lock, e)
       ELSE ViolationSquawk(Shared([mtx_unlock_spin(m)
                                    EXCEPT !.w_data[w1].w_other_squawked = TRUE],
                                   "w_other_squawked"), w, lock, e)

\* Lines 2324 to 2326: itismychild returned it.ret.
OrderAdded(it) ==
    IF it.m.panicstr # NoStr THEN it.m
    ELSE IF it.ret = 0 THEN mtx_unlock_spin(it.m)
    ELSE it.m

\* The end of the scan that never adds the observed order to the graph.
OrderScannedIdle(m1, scan, k, w1, w, lock) ==
    IF k # 0 THEN Violation(m1, w, lock, scan[k])
    ELSE mtx_unlock_spin(m1)

\* The end of the scan with the assertion bounding j by the size of a child
\* chunk instead of the number of witnesses.
OrderScannedTight(m1, scan, k, w1, w, lock) ==
    IF (IF k # 0 THEN k ELSE Len(scan)) >= WITNESS_NCHILDREN
    THEN panic(m1, "witness_lock: MPASS(j < WITNESS_COUNT)")
    ELSE IF k # 0 THEN Violation(m1, w, lock, scan[k])
    ELSE OrderAdded(itismychild(m1, w1, w))

\* Lines 2254 to 2326: the scan has stopped at entry k of scan (0: it ran
\* to the end of the list).
OrderScanned(m1, scan, k, w1, w, lock) ==
    IF (IF k # 0 THEN k ELSE Len(scan)) > WITNESS_COUNT
    THEN panic(m1, "witness_lock: MPASS(j < WITNESS_COUNT)")
    ELSE IF k # 0 THEN Violation(m1, w, lock, scan[k])
    ELSE OrderAdded(itismychild(m1, w1, w))

\* OrderLocked without the scan of the held locks: the new edge is added
\* whenever the most recent held lock is not already an ancestor.
OrderLockedUnscanned(m1, lock_list, lock, w1, w) ==
    IF w1 = NULL THEN panic(m1, "page fault: w1->w_level")
    ELSE IF m1.witness_watch > 1
            /\ m1.w_data[w].w_level > m1.w_data[w1].w_level
    THEN mtx_unlock_spin(m1)
    ELSE IF isitmydescendant(m1, w1, w) THEN mtx_unlock_spin(m1)
    ELSE OrderAdded(itismychild(m1, w1, w))

\* OrderLocked with the arguments of the scan's isitmydescendant swapped.
OrderLockedSwapped(m1, lock_list, lock, w1, w) ==
    IF w1 = NULL THEN panic(m1, "page fault: w1->w_level")
    ELSE IF m1.witness_watch > 1
            /\ m1.w_data[w].w_level > m1.w_data[w1].w_level
    THEN mtx_unlock_spin(m1)
    ELSE IF isitmydescendant(m1, w1, w) THEN mtx_unlock_spin(m1)
    ELSE OrderScanned(m1, ScanEntries(m1, lock_list),
                      FirstIdx(ScanEntries(m1, lock_list), LAMBDA e :
                          /\ m1.lo[e.lock].lo_witness # NULL
                          /\ isitmydescendant(m1, m1.lo[e.lock].lo_witness, w)),
                      w1, w, lock)

\* Lines 2236 to 2326, with w_mtx held.
OrderLocked(m1, lock_list, lock, w1, w) ==
    IF w1 = NULL THEN panic(m1, "page fault: w1->w_level")
    ELSE IF m1.witness_watch > 1
            /\ m1.w_data[w].w_level > m1.w_data[w1].w_level
    THEN mtx_unlock_spin(m1)
    ELSE IF isitmydescendant(m1, w1, w) THEN mtx_unlock_spin(m1)
    ELSE OrderScanned(m1, ScanEntries(m1, lock_list),
                      FirstIdx(ScanEntries(m1, lock_list), LAMBDA e :
                          /\ m1.lo[e.lock].lo_witness # NULL
                          /\ isitmydescendant(m1, w, m1.lo[e.lock].lo_witness)),
                      w1, w, lock)

\* Lines 2205 to 2327: everything between the choice of lock_list and out.
OrderCheck(m, lock_list, lock, flags) ==
    LET w == m.lo[lock].lo_witness
        head == ListHead(m, lock_list)
        cs == m.w_locklistdata[head].ll_children
        top == IF cs = << >> THEN NULL ELSE cs[Len(cs)]
        w1 == IF top = NULL THEN NULL ELSE m.lo[top].lo_witness
    IN IF "LOP_TRYLOCK" \in flags THEN m
       ELSE IF head = NULL THEN m
       ELSE IF top = NULL THEN panic(m, "page fault: ll_children[ll_count - 1]")
       ELSE IF w1 = w
       THEN IF m.w_data[w].w_same_squawked \/ dup_ok(m, w) THEN m
            ELSE printf(Shared([m EXCEPT !.w_data[w].w_same_squawked = TRUE],
                               "w_same_squawked"),
                        DupReport(m, w, lock))
       ELSE IF m.w_mtx = 1 THEN panic(m, "witness_lock: MPASS(!mtx_owned(&w_mtx))")
       ELSE OrderLocked(mtx_lock_spin(m), lock_list, lock, w1, w)

\* What a store past the end of ll_children can leave behind.  The slot
\* after the array is ll_count: the chunk ends up with a count that has
\* nothing to do with its entries, or the next use of it faults.
\* ub = LOCK_NCHILDREN + 1 stands for the fault.
UBOutcomes == 0..(LOCK_NCHILDREN + 1)

\* Lines 2341 to 2346: the new chunk g.ret becomes the head of the list.
LockOutNew(g, lock_list, lle, lock) ==
    IF g.ret = NULL THEN SetListHead(g.m, lock_list, NULL)
    ELSE [SetListHead(g.m, lock_list, g.ret)
          EXCEPT !.w_locklistdata[g.ret] =
                     [ll_next |-> lle, ll_children |-> << lock >>]]

LockOutStore(m1, lock_list, lock, ub) ==
    LET lle == ListHead(m1, lock_list)
    IN IF lle = NULL \/ Len(m1.w_locklistdata[lle].ll_children) = LOCK_CHILDCOUNT
       THEN LockOutNew(witness_lock_list_get(m1), lock_list, lle, lock)
       ELSE IF Len(m1.w_locklistdata[lle].ll_children) >= LOCK_NCHILDREN
       THEN IF ub > LOCK_NCHILDREN
            THEN panic(m1, "page fault: ll_children[ll_count++]")
            ELSE [m1 EXCEPT !.w_locklistdata[lle].ll_children = SubSeq(@, 1, ub)]
       ELSE [m1 EXCEPT !.w_locklistdata[lle].ll_children = Append(@, lock)]

\* Lines 2329 to 2347, from the label out.
LockOut(m, lock_list, lock, file, line, ub) ==
    LET w == m.lo[lock].lo_witness
    IN LockOutStore(Shared([m EXCEPT !.w_data[w].w_file = file,
                                     !.w_data[w].w_line = line,
                                     !.lo[lock].lo_line = line,
                                     !.lo[lock].lo_file = file], "w_file"),
                    lock_list, lock, ub)

\* The store of line 2347 goes past the end of the array.
Overflows(m, lock_list) ==
    LET lle == ListHead(m, lock_list)
    IN /\ lle # NULL
       /\ Len(m.w_locklistdata[lle].ll_children) # LOCK_CHILDCOUNT
       /\ Len(m.w_locklistdata[lle].ll_children) >= LOCK_NCHILDREN

LockListOf(m, p, lock) ==
    IF "LC_SLEEPLOCK" \in lc_flags(m.locks[lock].lo_class)
    THEN SleepList(p) ELSE SpinList(p)

LockChecked(m2, lock_list, lock, file, line, ub) ==
    IF m2.panicstr # NoStr THEN m2
    ELSE LockOut(m2, lock_list, lock, file, line, ub)

\* witness_lock without the test of the processor's spin-lock list.
witness_lockOverSpin(m, p, lock, flags, file, line, ub) ==
    LET sleep == "LC_SLEEPLOCK" \in lc_flags(m.locks[lock].lo_class)
        lock_list == IF sleep THEN SleepList(p) ELSE SpinList(p)
    IN IF \/ m.witness_cold = 1 \/ m.witness_dead = 1
          \/ m.lo[lock].lo_witness = NULL \/ m.panicstr # NoStr
       THEN m
       ELSE IF "LO_LOCKED" \notin m.lo[lock].lo_flags
       THEN panic(m, "witness_lock: lock is not locked")
       ELSE IF "LO_RECURSED" \in m.lo[lock].lo_flags
       THEN IF "LO_RECURSABLE" \notin m.lo[lock].lo_flags
            THEN panic(m, "witness_lock: recursed on non-recursive lock")
            ELSE m
       ELSE LockChecked(OrderCheck(mtx_unlock_spin(mtx_lock_spin(m)),
                                   lock_list, lock, flags),
                        lock_list, lock, file, line, ub)

witness_lock(m, p, lock, flags, file, line, ub) ==
    LET sleep == "LC_SLEEPLOCK" \in lc_flags(m.locks[lock].lo_class)
        lock_list == IF sleep THEN SleepList(p) ELSE SpinList(p)
    IN IF \/ m.witness_cold = 1 \/ m.witness_dead = 1
          \/ m.lo[lock].lo_witness = NULL \/ m.panicstr # NoStr
       THEN m
       ELSE IF "LO_LOCKED" \notin m.lo[lock].lo_flags
       THEN panic(m, "witness_lock: lock is not locked")
       ELSE IF "LO_RECURSED" \in m.lo[lock].lo_flags
       THEN IF "LO_RECURSABLE" \notin m.lo[lock].lo_flags
            THEN panic(m, "witness_lock: recursed on non-recursive lock")
            ELSE m
       ELSE IF sleep /\ m.spinlocks[p] # NULL
       THEN panic(mtx_unlock_spin(mtx_lock_spin(m)),
                  "witness_lock: blockable sleep lock")
       ELSE LockChecked(OrderCheck(mtx_unlock_spin(mtx_lock_spin(m)),
                                   lock_list, lock, flags),
                        lock_list, lock, file, line, ub)

\* ------------------------------------------------------------ witness_unlock
\* witness_unlock without the test of witness_dead.
witness_unlockAlways(m, p, lock, flags) ==
    IF \/ m.witness_cold = 1
       \/ m.lo[lock].lo_witness = NULL \/ m.panicstr # NoStr
    THEN m
    ELSE IF "LO_RECURSED" \in m.lo[lock].lo_flags
    THEN IF "LO_LOCKED" \notin m.lo[lock].lo_flags
         THEN panic(m, "witness_unlock: recursed lock is not locked")
         ELSE m
    ELSE LET sleep == "LC_SLEEPLOCK" \in lc_flags(m.locks[lock].lo_class)
         IN IF sleep /\ "LOP_NOSWITCH" \notin flags /\ m.spinlocks[p] # NULL
            THEN panic(m, "witness_unlock: switchable sleep unlock")
            ELSE LET lock_list == IF sleep THEN SleepList(p) ELSE SpinList(p)
                     ch == LockChain(m, ListHead(m, lock_list))
                     k == FirstIdx(ch, LAMBDA c :
                              lock \in Range(m.w_locklistdata[c].ll_children))
                 IN IF k = 0 THEN m
                    ELSE LET lle == ch[k]
                             cs == m.w_locklistdata[lle].ll_children
                             i == FirstIdx(cs, LAMBDA x : x = lock)
                             cs1 == SubSeq(cs, 1, i - 1) \o SubSeq(cs, i + 1, Len(cs))
                             m1 == [m EXCEPT !.w_locklistdata[lle].ll_children = cs1]
                             next == m.w_locklistdata[lle].ll_next
                         IN IF cs1 # << >> THEN m1
                            ELSE witness_lock_list_free(
                                   IF k = 1 THEN SetListHead(m1, lock_list, next)
                                   ELSE [m1 EXCEPT !.w_locklistdata[ch[k - 1]].ll_next = next],
                                   lle)

\* witness_unlock that unlinks an emptied chunk and never frees it.
witness_unlockLeak(m, p, lock, flags) ==
    IF \/ m.witness_cold = 1 \/ m.witness_dead = 1
       \/ m.lo[lock].lo_witness = NULL \/ m.panicstr # NoStr
    THEN m
    ELSE IF "LO_RECURSED" \in m.lo[lock].lo_flags
    THEN IF "LO_LOCKED" \notin m.lo[lock].lo_flags
         THEN panic(m, "witness_unlock: recursed lock is not locked")
         ELSE m
    ELSE LET sleep == "LC_SLEEPLOCK" \in lc_flags(m.locks[lock].lo_class)
         IN IF sleep /\ "LOP_NOSWITCH" \notin flags /\ m.spinlocks[p] # NULL
            THEN panic(m, "witness_unlock: switchable sleep unlock")
            ELSE LET lock_list == IF sleep THEN SleepList(p) ELSE SpinList(p)
                     ch == LockChain(m, ListHead(m, lock_list))
                     k == FirstIdx(ch, LAMBDA c :
                              lock \in Range(m.w_locklistdata[c].ll_children))
                 IN IF k = 0 THEN m
                    ELSE LET lle == ch[k]
                             cs == m.w_locklistdata[lle].ll_children
                             i == FirstIdx(cs, LAMBDA x : x = lock)
                             cs1 == SubSeq(cs, 1, i - 1) \o SubSeq(cs, i + 1, Len(cs))
                             m1 == [m EXCEPT !.w_locklistdata[lle].ll_children = cs1]
                             next == m.w_locklistdata[lle].ll_next
                         IN IF cs1 # << >> THEN m1
                            ELSE IF k = 1 THEN SetListHead(m1, lock_list, next)
                            ELSE [m1 EXCEPT !.w_locklistdata[ch[k - 1]].ll_next = next]

witness_unlock(m, p, lock, flags) ==
    IF \/ m.witness_cold = 1 \/ m.witness_dead = 1
       \/ m.lo[lock].lo_witness = NULL \/ m.panicstr # NoStr
    THEN m
    ELSE IF "LO_RECURSED" \in m.lo[lock].lo_flags
    THEN IF "LO_LOCKED" \notin m.lo[lock].lo_flags
         THEN panic(m, "witness_unlock: recursed lock is not locked")
         ELSE m
    ELSE LET sleep == "LC_SLEEPLOCK" \in lc_flags(m.locks[lock].lo_class)
         IN IF sleep /\ "LOP_NOSWITCH" \notin flags /\ m.spinlocks[p] # NULL
            THEN panic(m, "witness_unlock: switchable sleep unlock")
            ELSE LET lock_list == IF sleep THEN SleepList(p) ELSE SpinList(p)
                     ch == LockChain(m, ListHead(m, lock_list))
                     k == FirstIdx(ch, LAMBDA c :
                              lock \in Range(m.w_locklistdata[c].ll_children))
                 IN IF k = 0 THEN m
                    ELSE LET lle == ch[k]
                             cs == m.w_locklistdata[lle].ll_children
                             i == FirstIdx(cs, LAMBDA x : x = lock)
                             cs1 == SubSeq(cs, 1, i - 1) \o SubSeq(cs, i + 1, Len(cs))
                             m1 == [m EXCEPT !.w_locklistdata[lle].ll_children = cs1]
                             next == m.w_locklistdata[lle].ll_next
                         IN IF cs1 # << >> THEN m1
                            ELSE witness_lock_list_free(
                                   IF k = 1 THEN SetListHead(m1, lock_list, next)
                                   ELSE [m1 EXCEPT !.w_locklistdata[ch[k - 1]].ll_next = next],
                                   lle)

\* ------------------------------------------------------------ witness_sleep
SleepReport(m, lock1) ==
    [kind |-> "sleep", w |-> NULL, w1 |-> m.lo[lock1].lo_witness,
     n |-> NoStr, n1 |-> m.locks[lock1].lo_name]

\* SleepOffenders that also counts the lock passed in.
SleepOffendersAll(m, p, lock) ==
    SelectSeq(HeldScan(m, SleepList(p)) \o HeldScan(m, SpinList(p)),
              LAMBDA lock1 : ~ \/ IsGiant(m, lock1)
                               \/ "LO_SLEEPABLE" \in m.lo[lock1].lo_flags)

\* The locks witness_sleep counts, in the order it prints them.
SleepOffenders(m, p, lock) ==
    SelectSeq(HeldScan(m, SleepList(p)) \o HeldScan(m, SpinList(p)),
              LAMBDA lock1 : ~ \/ lock1 = lock
                               \/ IsGiant(m, lock1)
                               \/ "LO_SLEEPABLE" \in m.lo[lock1].lo_flags)

RECURSIVE PrintAll(_, _)
PrintAll(m, reps) ==
    IF reps = << >> THEN m ELSE PrintAll(printf(m, Head(reps)), Tail(reps))

SleepWarn(m, off) ==
    R(PrintAll(m, [i \in DOMAIN off |-> SleepReport(m, off[i])]), Len(off))

witness_sleep(m, p, check_only, lock) ==
    IF m.witness_dead = 1 \/ m.panicstr # NoStr THEN R(m, 0)
    ELSE IF m.witness_cold = 1 THEN R(panic(m, "witness_sleep: witness_cold"), 0)
    ELSE SleepWarn(m, SleepOffenders(m, p, lock))

\* ------------------------------------------------------------ witness_initialize
RECURSIVE FillWitnesses(_, _)
FillWitnesses(m, i) ==
    IF i > WITNESS_COUNT THEN m ELSE FillWitnesses(witness_free(m, i), i + 1)

RECURSIVE FillChildren(_, _)
FillChildren(m, i) ==
    IF i > WITNESS_CHILDCOUNT THEN m ELSE FillChildren(witness_child_free(m, i), i + 1)

RECURSIVE FillLockLists(_, _)
FillLockLists(m, i) ==
    IF i > LOCK_CHILDCOUNT THEN m ELSE FillLockLists(witness_lock_list_free(m, i), i + 1)

\* The inner loop of lines 1997 to 2002: the rest of one order list, w being
\* the witness of the entry before.
RECURSIVE SeedRest(_, _, _, _)
SeedChild(e, chain, i, w) ==
    IF e.m.panicstr # NoStr THEN e.m
    ELSE IF e.ret = NULL THEN panic(e.m, "page fault: w1->w_file")
    ELSE SeedRest(itismychild([e.m EXCEPT !.w_data[e.ret].w_file = "order list"],
                              w, e.ret).m,
                  chain, i + 1, e.ret)

SeedRest(m, chain, i, w) ==
    IF i > Len(chain) \/ m.panicstr # NoStr THEN m
    ELSE SeedChild(enroll(m, chain[i].w_name, chain[i].w_class), chain, i, w)

RECURSIVE SeedOrderLists(_, _)
SeedFirst(e, k) ==
    IF e.m.panicstr # NoStr THEN e.m
    ELSE IF e.ret = NULL THEN panic(e.m, "page fault: w->w_file")
    ELSE SeedOrderLists(
           SeedRest([e.m EXCEPT !.w_data[e.ret].w_file = "order list"],
                    order_lists[k], 2, e.ret),
           k + 1)

SeedOrderLists(m, k) ==
    IF k > Len(order_lists) \/ m.panicstr # NoStr THEN m
    ELSE SeedFirst(enroll(m, order_lists[k][1].w_name, order_lists[k][1].w_class), k)

\* Lines 2006 to 2014: every lock set up so far gets its witness.
RECURSIVE EnrollAllLocks(_, _)
EnrollSet(e, ls) ==
    IF e.m.panicstr # NoStr THEN e.m
    ELSE EnrollAllLocks([e.m EXCEPT !.lo[Head(ls)].lo_witness = e.ret], Tail(ls))

EnrollAllLocks(m, ls) ==
    IF ls = << >> \/ m.panicstr # NoStr THEN m
    ELSE IF "LO_WITNESS" \in m.lo[Head(ls)].lo_flags
    THEN EnrollSet(enroll(m, m.locks[Head(ls)].lo_name, m.locks[Head(ls)].lo_class), ls)
    ELSE EnrollAllLocks([m EXCEPT !.lo[Head(ls)].lo_witness = NULL], Tail(ls))

\* The Giant mutex of this run, or NULL when the run has none.
GiantOf(m) ==
    LET G == { l \in DOMAIN m.locks : IsGiant(m, l) }
    IN IF G = {} THEN NULL ELSE CHOOSE l \in G : TRUE

\* mtx_lock of the lock primitive: take or recurse, then WITNESS_LOCK.
mtx_lock(m, p, lock, flags, file, line, ub) ==
    LET m1 == IF m.mtx_owner[lock] = p
              THEN [m EXCEPT !.mtx_recurse[lock] = @ + 1,
                             !.lo[lock].lo_flags = @ \cup {"LO_RECURSED"}]
              ELSE [m EXCEPT !.mtx_owner[lock] = p,
                             !.lo[lock].lo_flags = @ \cup {"LO_LOCKED"}]
    IN witness_lock(m1, p, lock, flags, file, line, ub)

\* mtx_unlock of the lock primitive: WITNESS_UNLOCK, then unrecurse or release.
mtx_release(m1, lock) ==
    IF m1.panicstr # NoStr THEN m1
    ELSE IF m1.mtx_recurse[lock] > 0
    THEN [m1 EXCEPT !.mtx_recurse[lock] = @ - 1,
                    !.lo[lock].lo_flags =
                        IF m1.mtx_recurse[lock] = 1 THEN @ \ {"LO_RECURSED"} ELSE @]
    ELSE [m1 EXCEPT !.mtx_owner[lock] = NULL,
                    !.lo[lock].lo_flags = @ \ {"LO_LOCKED"}]

mtx_unlock(m, p, lock, flags) == mtx_release(witness_unlock(m, p, lock, flags), lock)

InitializeReady(m4, giant, line) ==
    IF m4.panicstr # NoStr THEN m4
    ELSE IF giant = NULL THEN [m4 EXCEPT !.witness_cold = 0]
    ELSE mtx_lock([m4 EXCEPT !.witness_cold = 0], 1, giant, {}, "file.c", line, 0)

InitializeEnroll(m3, giant, line) ==
    InitializeReady(EnrollAllLocks(m3, m3.all_locks), giant, line)

\* witness_initialize runs on the boot processor as process 1.  all_mtx, which
\* is not witnessed, is left out of all_locks.
witness_initialize(m, line) ==
    InitializeEnroll(
        SeedOrderLists(
            FillLockLists(FillChildren(FillWitnesses(
                IF GiantOf(m) = NULL THEN m ELSE mtx_unlock(m, 1, GiantOf(m), {}),
                1), 1), 1), 1),
        GiantOf(m), line)

\* ------------------------------------------------------------ reporting
\* The lines witness_displaydescendants hands to prnt for parent and the
\* witnesses below it; depth counts the frames, as in Descend.
RECURSIVE witness_displaydescendants(_, _, _)
witness_displaydescendants(m, parent, depth) ==
    << [level |-> m.w_data[parent].w_level, n |-> m.w_data[parent].w_name,
        file |-> m.w_data[parent].w_file] >>
    \o (IF depth > WITNESS_COUNT THEN << >>
        ELSE Flatten([i \in DOMAIN ChildrenOf(m, parent) |->
                 witness_displaydescendants(m, ChildrenOf(m, parent)[i], depth + 1)]))

\* The acquired witnesses of a type list that no witness of the list has
\* as a child, each with its descendants.
witness_display_list(m, list) ==
    Flatten([i \in DOMAIN list |->
        IF m.w_data[list[i]].w_file = NoStr THEN << >>
        ELSE IF \E j \in DOMAIN list : isitmychild(m, list[j], list[i]) THEN << >>
        ELSE witness_displaydescendants(m, list[i], 0)])

\* The memory after the dump and the lines it handed to prnt: the levelled
\* sleep and spin graphs, then the names of the witnesses never acquired.
witness_display(m) ==
    IF m.witness_cold = 1
    THEN R(panic(m, "witness_display: witness_cold"), << >>)
    ELSE R(witness_levelall(m),
           witness_display_list(witness_levelall(m), m.w_sleep)
             \o witness_display_list(witness_levelall(m), m.w_spin)
             \o Flatten([i \in DOMAIN m.w_all |->
                    IF m.w_data[m.w_all[i]].w_file # NoStr THEN << >>
                    ELSE << [level |-> 0, n |-> m.w_data[m.w_all[i]].w_name,
                             file |-> NoStr] >>]))

\* One line for each entry of the list, head chunk first and each chunk
\* from its last entry down; the number of lines is returned.
witness_list_locks(m, lock_list) ==
    R([m EXCEPT !.out = @ \o [i \in DOMAIN HeldScan(m, lock_list) |->
                                [kind |-> "held", w |-> NULL, w1 |-> NULL,
                                 n |-> m.locks[HeldScan(m, lock_list)[i]].lo_name,
                                 n1 |-> m.locks[HeldScan(m, lock_list)[i]].lo_class]]],
      Len(HeldScan(m, lock_list)))

\* witness_list for process p, called by process curproc: the spin locks
\* are listed only for the caller itself.
witness_list(m, p, curproc) ==
    IF m.witness_cold = 1 THEN R(panic(m, "witness_list: witness_cold"), 0)
    ELSE IF p # curproc THEN witness_list_locks(m, SleepList(p))
    ELSE R(witness_list_locks(witness_list_locks(m, SleepList(p)).m,
                              SpinList(curproc)).m,
           witness_list_locks(m, SleepList(p)).ret
             + witness_list_locks(m, SpinList(curproc)).ret)

\* ------------------------------------------------------------ actions
RECURSIVE Count(_, _)
Count(b, reps) ==
    IF reps = << >> THEN b
    ELSE LET r == Head(reps)
             b1 == IF r.kind \in {"sleep", "held"} THEN b
                   ELSE IF r \in DOMAIN b THEN [b EXCEPT ![r] = @ + 1]
                   ELSE b @@ (r :> 1)
         IN Count(b1, Tail(reps))

\* The state after a call that left memory m.
Commit(m, call) ==
    /\ locks' = m.locks
    /\ witness_watch' = m.witness_watch
    /\ witness_cold' = m.witness_cold
    /\ witness_dead' = m.witness_dead
    /\ panicstr' = m.panicstr
    /\ w_mtx' = m.w_mtx
    /\ w_free' = m.w_free
    /\ w_all' = m.w_all
    /\ w_spin' = m.w_spin
    /\ w_sleep' = m.w_sleep
    /\ w_child_free' = m.w_child_free
    /\ w_lock_list_free' = m.w_lock_list_free
    /\ w_data' = m.w_data
    /\ w_childdata' = m.w_childdata
    /\ w_locklistdata' = m.w_locklistdata
    /\ all_locks' = m.all_locks
    /\ lock_cur_cnt' = m.lock_cur_cnt
    /\ lock_max_cnt' = m.lock_max_cnt
    /\ lo' = m.lo
    /\ p_sleeplocks' = m.p_sleeplocks
    /\ spinlocks' = m.spinlocks
    /\ mtx_owner' = m.mtx_owner
    /\ mtx_recurse' = m.mtx_recurse
    /\ mtx_err' = m.mtx_err
    /\ reports' = Count(reports, m.out)
    /\ ndestroy' = ndestroy + (IF call = "witness_destroy" THEN 1 ELSE 0)

InitWith(universes, watches) ==
    /\ locks \in universes
    /\ witness_watch \in watches
    /\ witness_cold = 1
    /\ witness_dead = 0
    /\ panicstr = NoStr
    /\ w_mtx = 0
    /\ w_free = << >>
    /\ w_all = << >>
    /\ w_spin = << >>
    /\ w_sleep = << >>
    /\ w_child_free = NULL
    /\ w_lock_list_free = NULL
    /\ w_data = [w \in Witnesses |-> ZeroWitness]
    /\ w_childdata = [c \in ChildChunks |-> ZeroChild]
    /\ w_locklistdata = [c \in LockChunks |-> ZeroLockList]
    /\ all_locks = << >>
    /\ lock_cur_cnt = 0
    /\ lock_max_cnt = 0
    /\ lo = [l \in DOMAIN locks |-> ZeroLock]
    /\ p_sleeplocks = [p \in Procs |-> NULL]
    /\ spinlocks = [p \in Procs |-> NULL]
    /\ mtx_owner = [l \in DOMAIN locks |-> NULL]
    /\ mtx_recurse = [l \in DOMAIN locks |-> 0]
    /\ mtx_err = FALSE
    /\ reports = << >>
    /\ ndestroy = 0

\* SYSINIT(witness_init, SI_SUB_WITNESS, ...): once, with Giant held by the
\* boot process when the run has a Giant.
WitnessInitialize ==
    /\ panicstr = NoStr
    /\ witness_cold = 1
    /\ LET giant == GiantOf(Mem)
       IN giant # NULL =>
            /\ giant \in Range(all_locks)
            /\ mtx_owner[giant] = 1
            /\ mtx_recurse[giant] = 0
    /\ \E line \in Sites : Commit(witness_initialize(Mem, line), "witness_initialize")

\* A lock primitive's init: it sets the LO_ flags of the lock and calls
\* witness_init.  fresh: the lock object is new (zeroed) memory, which it
\* can only be when no lock set up earlier lives there.
WitnessInit(lock, fresh) ==
    /\ panicstr = NoStr
    /\ witness_cold = 1 => locks[lock].early
    /\ mtx_owner[lock] = NULL
    /\ fresh => lock \notin Range(all_locks)
    /\ Commit(witness_init(
                 [(IF fresh THEN [Mem EXCEPT !.lo[lock] = ZeroLock] ELSE Mem)
                  EXCEPT !.lo[lock].lo_flags =
                      (@ \cap {"LO_INITIALIZED", "LO_LOCKED", "LO_RECURSED"})
                          \cup locks[lock].flags],
                 lock),
              "witness_init")

WitnessDestroy(lock) ==
    /\ panicstr = NoStr
    /\ ndestroy < MaxDestroy
    /\ mtx_owner[lock] = NULL
    /\ Commit(witness_destroy(Mem, lock), "witness_destroy")

\* Process p acquires the lock: it is free, or p holds it and recurses.
\* Before witness_initialize only the boot process runs.
MtxLock(p, lock, flags) ==
    /\ panicstr = NoStr
    /\ witness_cold = 1 => p = 1
    /\ lock \in Range(all_locks)
    /\ \/ mtx_owner[lock] = NULL
       \/ /\ mtx_owner[lock] = p
          /\ mtx_recurse[lock] < MaxRecurse
          /\ "LOP_TRYLOCK" \notin flags
    /\ \E line \in Sites :
       \E ub \in IF Overflows(Mem, LockListOf(Mem, p, lock)) THEN UBOutcomes ELSE {0} :
         Commit(mtx_lock(Mem, p, lock, flags, "file.c", line, ub), "witness_lock")

MtxUnlock(p, lock, flags) ==
    /\ panicstr = NoStr
    /\ mtx_owner[lock] = p
    /\ Commit(mtx_unlock(Mem, p, lock, flags), "witness_unlock")

\* Process p is about to sleep; lock (or NULL) is the lock msleep releases.
WitnessSleep(p, lock) ==
    /\ panicstr = NoStr
    /\ witness_cold = 0
    /\ Commit(witness_sleep(Mem, p, 0, lock).m, "witness_sleep")

\* The calls the processes of P make on locks that stay where they are.
Use(P) ==
    \/ WitnessInitialize
    \/ \E lock \in Locks : WitnessInit(lock, FALSE)
    \/ \E p \in P, lock \in Locks, flags \in {{}, {"LOP_TRYLOCK"}} :
         MtxLock(p, lock, flags)
    \/ \E p \in P, lock \in Locks, flags \in {{}, {"LOP_NOSWITCH"}} :
         MtxUnlock(p, lock, flags)
    \/ \E p \in P, lock \in Locks \cup {NULL} : WitnessSleep(p, lock)

\* Locks are destroyed, and set up again in new memory.
Life ==
    \/ \E lock \in Locks : WitnessDestroy(lock)
    \/ \E lock \in Locks : WitnessInit(lock, TRUE)

\* Two locks named A and one named B, used by all processes.
Next == Use(Procs)
Init == InitWith({UnivAB}, {1})
Spec == Init /\ [][Next]_vars

\* The same locks, used, destroyed and set up again by one process.
NextLife == Use({1}) \/ Life
SpecLife == Init /\ [][NextLife]_vars

\* Giant and two locks named "process lock": the seeded sleep order, and a
\* name of dup_list.
NextAll == Use(Procs) \/ Life
InitGiant == InitWith({UnivGiant}, {1})
SpecGiant == InitGiant /\ [][NextAll]_vars

\* Giant, "process lock" and a lock X that no order list names.
InitGX == InitWith({UnivGX}, {1})
SpecGX == InitGX /\ [][Next]_vars

\* The two seeded spin locks and a sleepable sx lock.
InitSpin == InitWith({UnivSpin}, {1})
SpecSpin == InitSpin /\ [][NextAll]_vars

\* Three names that no order list has: with the seeded names they fill the
\* witness pool, and two of them as parents use up the child chunks.
InitABC == InitWith({UnivABC}, {1})
SpecABC == InitABC /\ [][NextLife]_vars

\* Giant, "process lock" and X, used by processes that take a lock named
\* "process lock" only while they hold no lock named "Giant": every context
\* that holds both took "process lock" first.
Ordered(p, lock) ==
    ~ /\ locks[lock].lo_name = "process lock"
      /\ \E l \in Locks : locks[l].lo_name = "Giant" /\ mtx_owner[l] = p

NextOrdered ==
    \/ WitnessInitialize
    \/ \E lock \in Locks : WitnessInit(lock, FALSE)
    \/ \E p \in Procs, lock \in Locks, flags \in {{}, {"LOP_TRYLOCK"}} :
         Ordered(p, lock) /\ MtxLock(p, lock, flags)
    \/ \E p \in Procs, lock \in Locks, flags \in {{}, {"LOP_NOSWITCH"}} :
         MtxUnlock(p, lock, flags)
    \/ \E p \in Procs, lock \in Locks \cup {NULL} : WitnessSleep(p, lock)

SpecOrdered == InitGX /\ [][NextOrdered]_vars

\* Either the two locks named A with B, or Giant with the two locks named
\* "process lock", a name of dup_list.
InitDup == InitWith({UnivAB, UnivGiant}, {1})
SpecDup == InitDup /\ [][Next]_vars

\* A, B and C used by one process in well-nested sequences: it takes a lock
\* only when every lock it holds comes earlier in the universe, and releases
\* only the latest lock it holds.
Innermost(p, lock) == \A l \in Locks : mtx_owner[l] = p => l <= lock

NextNested ==
    \/ WitnessInitialize
    \/ \E lock \in Locks : WitnessInit(lock, FALSE)
    \/ \E lock \in Locks, flags \in {{}, {"LOP_TRYLOCK"}} :
         /\ mtx_owner[lock] = NULL
         /\ Innermost(1, lock)
         /\ MtxLock(1, lock, flags)
    \/ \E lock \in Locks, flags \in {{}, {"LOP_NOSWITCH"}} :
         /\ Innermost(1, lock)
         /\ MtxUnlock(1, lock, flags)
    \/ \E lock \in Locks \cup {NULL} : WitnessSleep(1, lock)

SpecNested == InitABC /\ [][NextNested]_vars

\* Four names that no order list has, one more than the witness pool has
\* room for after the seeding; one process uses the locks in well-nested
\* sequences, destroys them and sets them up again.
InitMany == InitWith({UnivABCD}, {1})
NextMany == NextNested \/ Life
SpecMany == InitMany /\ [][NextMany]_vars

\* Either the spin locks with the sleepable sx lock, or A, B and C, which
\* can use up the pools; one process, with destroy and re-init.
InitSleep == InitWith({UnivSpin, UnivABC}, {1})
SpecSleep == InitSleep /\ [][NextLife]_vars

\* A primitive calls witness_unlock for a lock that process p does not hold.
WitnessUnlock(p, lock, flags) ==
    /\ panicstr = NoStr
    /\ lock \in Range(all_locks)
    /\ mtx_owner[lock] # p
    /\ Commit(witness_unlock(Mem, p, lock, flags), "witness_unlock")

\* The locks of Spec, with releases of locks that are not held.
NextStray ==
    \/ Next
    \/ \E p \in Procs, lock \in Locks, flags \in {{}, {"LOP_NOSWITCH"}} :
         WitnessUnlock(p, lock, flags)

SpecStray == Init /\ [][NextStray]_vars

\* ------------------------------------------------------------ properties
\* The order graph read off the child chunks, and its transitive closure.
Edges ==
    { e \in Witnesses \X Witnesses :
        \E c \in Range(ChildChain(Mem, w_data[e[1]].w_children)) :
            e[2] \in Range(w_childdata[c].wcl_children) }

RECURSIVE Closure(_, _)
Closure(E, k) ==
    IF k > WITNESS_COUNT THEN E
    ELSE Closure(E \cup { e \in Witnesses \X Witnesses :
                            <<e[1], k>> \in E /\ <<k, e[2]>> \in E }, k + 1)

\* <<a, b>> \in Below: b is a descendant of a.
Below == Closure(Edges, 1)

\* The lock p acquired last among those on the list lock would go on.
TopHeld(p, lock) ==
    LET held == HeldScan(Mem, LockListOf(Mem, p, lock))
    IN IF held = << >> THEN NULL ELSE held[1]

Printed(r) == IF r \in DOMAIN reports THEN reports[r] ELSE 0

\* Process p takes the free lock with a blocking acquire while the verifier
\* is running.
Acquire(p, lock) ==
    /\ witness_cold = 0
    /\ witness_dead = 0
    /\ mtx_owner[lock] = NULL
    /\ MtxLock(p, lock, {})

\* The squawk flag of witness w1 that a reversal against the held lock lock1
\* reads, in the witness array data.
Squawked(data, w1, lock1) ==
    IF IsGiant(Mem, lock1) THEN data[w1].w_Giant_squawked
    ELSE data[w1].w_other_squawked

\* C1 as stated, for the context whose most recent held lock is the lock of
\* A: once the edge B->A is in the graph, every acquisition of a lock of B by
\* a context that holds a lock of A prints a lock-order report.
C1_EveryReversalReported ==
    [][\A p \in Procs, lock \in Locks :
         LET lock1 == TopHeld(p, lock)
             w == lo[lock].lo_witness
             w1 == IF lock1 = NULL THEN NULL ELSE lo[lock1].lo_witness
         IN ( /\ Acquire(p, lock)
              /\ w # NULL /\ w1 # NULL
              /\ <<w, w1>> \in Below
              /\ ~blessed(Mem, w, w1) )
            => \E r \in DOMAIN reports' :
                  /\ r.kind = "order" /\ r.w = w
                  /\ reports'[r] > Printed(r)]_vars

\* C1, amended: when the edge B->A is in the graph and a context whose most
\* recent held lock is a lock of A takes a lock of B with a blocking acquire,
\* the lock-order report for (B, A) is printed exactly when A's witness has
\* not squawked before, and A's witness has squawked afterwards.
C1_ReversalReportedUnlessSquawked ==
    [][\A p \in Procs, lock \in Locks :
         LET lock1 == TopHeld(p, lock)
             w == lo[lock].lo_witness
             w1 == IF lock1 = NULL THEN NULL ELSE lo[lock1].lo_witness
             r == OrderReport(Mem, w, w1, lock, lock1)
         IN ( /\ Acquire(p, lock)
              /\ w # NULL /\ w1 # NULL
              /\ <<w, w1>> \in Below
              /\ ~blessed(Mem, w, w1) )
            => /\ (IF r \in DOMAIN reports' THEN reports'[r] ELSE 0)
                     = Printed(r) + (IF Squawked(w_data, w1, lock1) THEN 0 ELSE 1)
               /\ Squawked(w_data', w1, lock1)]_vars

\* A reversal has been reported and the edge it goes against is in the graph.
C1_Witness ==
    \E r \in DOMAIN reports :
        /\ r.kind = "order"
        /\ <<r.w, r.w1>> \in Below
        /\ w_data[r.w1].w_other_squawked

\* C2 as stated, for A = "process lock" and B = "Giant" in runs where every
\* context takes A before B: no lock-order report is ever printed for the
\* pair.
C2_NoReportForOrderedPair ==
    \A r \in DOMAIN reports :
        ~ /\ r.kind = "order"
          /\ {r.n, r.n1} = {"process lock", "Giant"}

\* C2, amended: a lock-order report for a lock of witness w acquired while a
\* lock of witness w1 is held is printed only when w1 is a descendant of w in
\* the order graph, and once the order lists are seeded an edge enters the
\* graph only when a context takes a lock of the child with a blocking
\* acquire while a lock of the parent is its most recent held lock.
C2_ReportOnlyAgainstGraph ==
    [][/\ \A r \in DOMAIN reports' :
            (r.kind = "order" /\ reports'[r] > Printed(r))
                => <<r.w, r.w1>> \in Below
       /\ witness_cold = 0 =>
            \A e \in Edges' \ Edges :
                \E p \in Procs, lock \in Locks :
                    /\ Acquire(p, lock)
                    /\ lo[lock].lo_witness = e[2]
                    /\ TopHeld(p, lock) # NULL
                    /\ lo[TopHeld(p, lock)].lo_witness = e[1]]_vars

\* X then Giant has been learned, and a reversal of the seeded order has
\* been reported to a context that took "process lock" before Giant.
C2_Witness ==
    /\ \E r \in DOMAIN reports :
          r.kind = "order" /\ r.n = "Giant" /\ r.n1 = "process lock"
    /\ \E e \in Edges :
          w_data[e[1]].w_name = "X" /\ w_data[e[2]].w_name = "Giant"

\* C3: the order graph is acyclic in every reachable state: no witness is
\* its own descendant, so no two witnesses are descendants of each other.
C3_Acyclic == \A a \in Witnesses : <<a, a>> \notin Below

\* An edge a -> b is in the graph, a lock of a has been acquired, and the
\* acquisition that would have closed the cycle (a lock of a taken while one
\* of b is held) has been made and reported.
C3_Witness ==
    \E e \in Edges :
        /\ w_data[e[1]].w_file = "file.c"
        /\ \E r \in DOMAIN reports :
              r.kind = "order" /\ r.w = e[1] /\ r.w1 = e[2]

\* C4: each distinct offending pair is reported once.  When a context whose
\* most recent held lock has witness w1 takes, with a blocking acquire, a
\* lock of a witness w that has w1 as a descendant, and no report for the
\* pair (w, w1) has been printed yet, the report is printed now, whatever
\* has been reported for other pairs; and no pair is reported twice.
C4_EachPairReportedOnce ==
    [][/\ \A p \in Procs, lock \in Locks :
            LET lock1 == TopHeld(p, lock)
                w == lo[lock].lo_witness
                w1 == IF lock1 = NULL THEN NULL ELSE lo[lock1].lo_witness
            IN ( /\ Acquire(p, lock)
                 /\ w # NULL /\ w1 # NULL
                 /\ <<w, w1>> \in Below
                 /\ ~blessed(Mem, w, w1)
                 /\ \A r \in DOMAIN reports :
                       ~(r.kind = "order" /\ r.w = w /\ r.w1 = w1) )
               => \E r \in DOMAIN reports' :
                     r.kind = "order" /\ r.w = w /\ r.w1 = w1
       /\ \A r \in DOMAIN reports' : r.kind = "order" => reports'[r] = 1]_vars

\* C5: the sticky suppression scenario, with the seeded order A -> B.  A
\* context that holds only a lock of A and takes a lock of B gets no report.
\* A context that holds only a lock of B and takes a lock of A gets the
\* lock-order report for (A, B) if none has been printed yet, which leaves
\* exactly one; when one has been printed, the repetition prints nothing.
C5_StickyScenario ==
    [][\A p \in Procs, lock \in Locks :
         LET lock1 == TopHeld(p, lock)
             w == lo[lock].lo_witness
             w1 == IF lock1 = NULL THEN NULL ELSE lo[lock1].lo_witness
             r == OrderReport(Mem, w, w1, lock, lock1)
         IN ( /\ Acquire(p, lock)
              /\ Len(HeldScan(Mem, LockListOf(Mem, p, lock))) = 1
              /\ w # NULL /\ w1 # NULL /\ w # w1 )
            => IF <<w1, w>> \in Below THEN reports' = reports
               ELSE IF <<w, w1>> \in Below
               THEN reports' = IF Printed(r) = 0 THEN reports @@ (r :> 1)
                               ELSE reports
               ELSE TRUE]_vars

\* The reversal of the seeded order Giant -> "process lock" has been reported
\* once, and a context that holds only a "process lock" can take Giant again.
C5_Witness ==
    /\ \E r \in DOMAIN reports :
          /\ r.kind = "order" /\ r.n = "Giant" /\ r.n1 = "process lock"
          /\ reports[r] = 1
    /\ \E p \in Procs, lock \in Locks :
          /\ HeldScan(Mem, SleepList(p)) = << lock >>
          /\ locks[lock].lo_name = "process lock"
          /\ \A l \in Locks : IsGiant(Mem, l) => mtx_owner[l] = NULL

ChunksOf(p) ==
    Range(LockChain(Mem, p_sleeplocks[p])) \cup Range(LockChain(Mem, spinlocks[p]))

FreeLockChunks == Range(LockChain(Mem, w_lock_list_free))

HoldsNothing(p) == \A l \in Locks : mtx_owner[l] # p

C8_GracefulDegradation ==
    [][/\ panicstr' \in {NoStr, "witness_init: lock is already initialized",
                         "witness_destroy: lock is not initialized",
                         "witness_destroy: lock destroyed while witness_cold",
                         "page fault: STAILQ_REMOVE(&all_locks)"}
       /\ (witness_dead = 0 /\ witness_dead' = 1) => panicstr' = NoStr
       /\ witness_dead = 1 =>
            /\ reports' = reports
            /\ \A p \in Procs, lock \in Locks \cup {NULL} :
                  witness_sleep(Mem, p, 0, lock).m.out = << >>]_vars

\* The witness pool ran out at the init of the fourth name, whose lock has
\* no witness and is held all the same, with other locks, and nothing
\* panicked.
C8_Witness ==
    /\ witness_dead = 1
    /\ panicstr = NoStr
    /\ Exhausted("witness_get") \in DOMAIN reports
    /\ \E l \in Locks :
          /\ "LO_INITIALIZED" \in lo[l].lo_flags
          /\ lo[l].lo_witness = NULL
          /\ mtx_owner[l] = 1
    /\ p_sleeplocks[1] # NULL

\* C9: the dead flag is permanent: no step takes witness_dead from 1 back
\* to 0.
C9_DeadIsPermanent == [][witness_dead = 1 => witness_dead' = 1]_vars

\* The flag is set and the run goes on: a lock has been destroyed, and a
\* lock is held whose acquisition left no site behind.
C9_Witness ==
    /\ witness_dead = 1
    /\ panicstr = NoStr
    /\ ndestroy > 0
    /\ \E l \in Locks : mtx_owner[l] # NULL /\ lo[l].lo_file = NoStr

\* C10: after the dead flag is set, witness_lock and witness_unlock are
\* no-ops: a lock or unlock step changes neither the graph, nor a witness,
\* nor a held-lock list, nor a pool, nor the registry, and prints nothing;
\* witness_sleep returns 0.
C10_NoOpsWhenDead ==
    [][witness_dead = 1 =>
         /\ (\E p \in Procs, lock \in Locks :
                \/ \E flags \in {{}, {"LOP_TRYLOCK"}} : MtxLock(p, lock, flags)
                \/ \E flags \in {{}, {"LOP_NOSWITCH"}} : MtxUnlock(p, lock, flags))
              => UNCHANGED << w_data, w_childdata, w_locklistdata, p_sleeplocks,
                              spinlocks, w_free, w_child_free, w_lock_list_free,
                              w_all, w_spin, w_sleep, reports, witness_dead,
                              panicstr, w_mtx >>
                 /\ \A l \in Locks :
                       /\ lo'[l].lo_witness = lo[l].lo_witness
                       /\ lo'[l].lo_file = lo[l].lo_file
                       /\ lo'[l].lo_line = lo[l].lo_line
         /\ \A p \in Procs, lock \in Locks \cup {NULL} :
               witness_sleep(Mem, p, 0, lock).ret = 0]_vars

\* The flag is set, a lock pushed before is still on a held-lock list though
\* it has been released, and another lock is held with no entry for it.
C10_Witness ==
    /\ witness_dead = 1
    /\ panicstr = NoStr
    /\ \E p \in Procs, l \in Locks :
          /\ l \in Range(HeldScan(Mem, SleepList(p)))
          /\ mtx_owner[l] = NULL
    /\ \E p \in Procs, l \in Locks :
          /\ mtx_owner[l] = p
          /\ l \notin Range(HeldScan(Mem, SleepList(p)))

\* The entries of both held-lock lists of p, as chunk and slot, that
\* witness_sleep(lock) has to count.
Unsafe(p, lock) ==
    { e \in (ChunksOf(p) \X (1..LOCK_CHILDCOUNT)) :
        /\ e[2] \in DOMAIN w_locklistdata[e[1]].ll_children
        /\ LET lock1 == w_locklistdata[e[1]].ll_children[e[2]]
           IN /\ lock1 # lock
              /\ locks[lock1].lo_name # "Giant"
              /\ "LO_SLEEPABLE" \notin lo[lock1].lo_flags }

\* C11 as stated: witness_sleep(lock) returns the number of entries of the
\* caller's two held-lock lists that are not the lock passed in, not Giant
\* and not LO_SLEEPABLE.
C11_SleepCountsUnsafe ==
    \A p \in Procs, lock \in Locks \cup {NULL} :
        (witness_cold = 0 /\ panicstr = NoStr)
            => witness_sleep(Mem, p, 0, lock).ret = Cardinality(Unsafe(p, lock))

\* C11, amended: it returns that number while witness_dead is not set, and 0
\* once it is set, whatever is on the lists.
C11_SleepCountsUnsafeUnlessDead ==
    \A p \in Procs, lock \in Locks \cup {NULL} :
        (witness_cold = 0 /\ panicstr = NoStr)
            => witness_sleep(Mem, p, 0, lock).ret
                 = IF witness_dead = 1 THEN 0 ELSE Cardinality(Unsafe(p, lock))

\* A context holds the spin lock "sio" and the sleepable sx lock G, and
\* nothing else: witness_sleep counts 1 with no lock passed in and 0 with
\* the spin lock passed in.
C11_Witness ==
    \E p \in Procs, s1 \in Locks, g \in Locks :
        /\ witness_dead = 0
        /\ locks[s1].lo_class = "mtx_spin"
        /\ locks[g].lo_class = "sx"
        /\ HeldScan(Mem, SpinList(p)) = << s1 >>
        /\ HeldScan(Mem, SleepList(p)) = << g >>
        /\ witness_sleep(Mem, p, 0, NULL).ret = 1
        /\ witness_sleep(Mem, p, 0, s1).ret = 0

\* C12: releasing a watched lock that is not on the caller's held-lock list
\* is fatal: witness_unlock, called for it while the verifier is running,
\* panics.
C12_StrayUnlockPanics ==
    \A p \in Procs, lock \in Locks, flags \in {{}, {"LOP_NOSWITCH"}} :
        ( /\ witness_cold = 0
          /\ witness_dead = 0
          /\ panicstr = NoStr
          /\ lock \in Range(all_locks)
          /\ mtx_owner[lock] # p
          /\ lo[lock].lo_witness # NULL
          /\ "LO_RECURSED" \notin lo[lock].lo_flags
          /\ lock \notin Range(HeldScan(Mem, LockListOf(Mem, p, lock))) )
        => witness_unlock(Mem, p, lock, flags).panicstr # NoStr

\* C13: operating on a destroyed lock is fatal: once witness_destroy(lock) has
\* completed, a second witness_destroy(lock) panics with "not initialized"
\* and decrements no reference count, and witness_init of the same lock
\* object does not panic with "already initialized".
C13_DestroyedLockIsFatal ==
    [][\A lock \in Locks :
         (WitnessDestroy(lock) /\ panicstr' = NoStr) =>
            /\ witness_destroy(Mem', lock).panicstr
                   = "witness_destroy: lock is not initialized"
            /\ witness_destroy(Mem', lock).w_data = w_data'
            /\ witness_init([Mem' EXCEPT !.lo[lock].lo_flags =
                                @ \cup locks[lock].flags], lock).panicstr
                   # "witness_init: lock is already initialized"]_vars

\* C14: double initialization is fatal: witness_init of a lock object whose
\* LO_INITIALIZED flag is set panics, and it has not inserted the lock into
\* all_locks, changed the lock counters or enrolled a Witness.
C14_DoubleInitPanicsFirst ==
    [][\A lock \in Locks, fresh \in BOOLEAN :
         (WitnessInit(lock, fresh) /\ ~fresh /\ "LO_INITIALIZED" \in lo[lock].lo_flags)
         => /\ panicstr' = "witness_init: lock is already initialized"
            /\ UNCHANGED << all_locks, lock_cur_cnt, lock_max_cnt >>
            /\ UNCHANGED << w_data, w_all, w_free, w_spin, w_sleep >>
            /\ lo'[lock].lo_witness = lo[lock].lo_witness]_vars

\* A run stopped by the double-initialization panic.
C14_Witness ==
    /\ panicstr = "witness_init: lock is already initialized"
    /\ witness_cold = 0
    /\ all_locks # << >>

\* Two locks of different classes that share the name A, and a lock B.
UnivMix == << MtxS("A"), Sx("A"), MtxS("B") >>
InitMix == InitWith({UnivMix}, {1})
SpecMix == InitMix /\ [][NextAll]_vars

LockClasses == {"mtx_sleep", "mtx_spin", "sx"}

UnivEarlySpin == << Lk("clk", "mtx_spin", {"LO_WITNESS"}, TRUE), Spin("sio"),
                    Spin("ad hoc") >>
InitEarlySpin == InitWith({UnivEarlySpin}, {1})
SpecEarlySpin == InitEarlySpin /\ [][NextAll]_vars

SpinNames == {"clk", "sio", "sched lock", "ad hoc"}
SeededNames == { order_lists[i][j].w_name : i \in 1..2, j \in 1..2 }
InRegistry(m, name) == \E w \in Range(m.w_all) : m.w_data[w].w_name = name

\* enroll(name, &lock_class_mtx_spin) in memory m returns a Witness.
SpinAccepted(m, name) ==
    /\ enroll(m, name, "mtx_spin").m.panicstr = NoStr
    /\ enroll(m, name, "mtx_spin").ret # NULL

\* After startup, enroll of a spin name without a Witness panics and leaves
\* the registry and the pool as they were.
SpinUndeclaredPanics ==
    \A name \in SpinNames :
        (witness_cold = 0 /\ panicstr = NoStr /\ ~InRegistry(Mem, name))
        => /\ enroll(Mem, name, "mtx_spin").m.panicstr
                  = "enroll: spin lock not in order list"
           /\ enroll(Mem, name, "mtx_spin").m.w_free = w_free
           /\ enroll(Mem, name, "mtx_spin").m.w_all = w_all
           /\ enroll(Mem, name, "mtx_spin").m.w_data = w_data

UnivDeep == << GiantLk, MtxS("process lock"), MtxS("process lock"), MtxS("X") >>
InitDeep == InitWith({UnivDeep}, {1})
NextDeep ==
    \/ WitnessInitialize
    \/ \E lock \in Locks : WitnessInit(lock, FALSE)
    \/ \E lock \in Locks : MtxLock(1, lock, {})
    \/ \E lock \in Locks : MtxUnlock(1, lock, {})
SpecDeep == InitDeep /\ [][NextDeep]_vars

\* witness_lock of lock by p finds a duplicate or a reversal: the most recent
\* held lock has the witness of lock, or a held lock has a witness that is a
\* descendant of it and the most recent one is not an ancestor.
Detects(p, lock) ==
    LET held == HeldScan(Mem, LockListOf(Mem, p, lock))
        w == lo[lock].lo_witness
    IN /\ w # NULL
       /\ held # << >>
       /\ lo[held[1]].lo_witness # NULL
       /\ ~("LC_SLEEPLOCK" \in lc_flags(locks[lock].lo_class) /\ spinlocks[p] # NULL)
       /\ \/ lo[held[1]].lo_witness = w
          \/ /\ ~isitmydescendant(Mem, lo[held[1]].lo_witness, w)
             /\ \E k \in DOMAIN held :
                   /\ lo[held[k]].lo_witness # NULL
                   /\ isitmydescendant(Mem, w, lo[held[k]].lo_witness)

\* C17: a detected violation never aborts the acquisition: when witness_lock
\* finds a duplicate or a reversal, reported or suppressed, it does not
\* panic, and on return the lock is the last entry of the caller's list and
\* the acquisition site of the lock and of its witness is the caller's.
C17_ViolationsNeverAbort ==
    [][\A p \in Procs, lock \in Locks :
         (Acquire(p, lock) /\ Detects(p, lock))
         => /\ panicstr' = NoStr
            /\ HeldScan(Mem', LockListOf(Mem, p, lock))
                   = << lock >> \o HeldScan(Mem, LockListOf(Mem, p, lock))
            /\ lo'[lock].lo_file = "file.c"
            /\ lo'[lock].lo_line \in Sites
            /\ w_data'[lo[lock].lo_witness].w_file = "file.c"
            /\ w_data'[lo[lock].lo_witness].w_line = lo'[lock].lo_line]_vars

\* The lock objects that are set up and not destroyed, and are bound to w.
LiveLocksOf(w) == { lock \in Range(all_locks) : lo[lock].lo_witness = w }

\* C18: in every reachable state the w_refcount of each Witness is the
\* number of initialized, not destroyed lock instances whose lo_witness is
\* that Witness, and it is never below zero.
C18_RefcountIsLiveLocks ==
    \A w \in Witnesses :
        /\ w_data[w].w_refcount = Cardinality(LiveLocksOf(w))
        /\ w_data[w].w_refcount >= 0

\* C18 as the code has it: until a panic stops the run, w_refcount is the
\* number of live lock instances bound to the Witness, plus one for a
\* Witness that witness_initialize enrolled from the order lists; it is
\* never below zero.
C18_RefcountIsLiveLocksPlusSeed ==
    panicstr = NoStr =>
        \A w \in Witnesses :
            /\ w_data[w].w_refcount
                  = Cardinality(LiveLocksOf(w))
                    + (IF w \in Range(w_all) /\ w_data[w].w_name \in SeededNames
                       THEN 1 ELSE 0)
            /\ w_data[w].w_refcount >= 0

\* One of the two locks named "process lock" has been destroyed: the seeded
\* Witness is left with the other lock and the reference of the order list.
C18_Witness ==
    /\ panicstr = NoStr
    /\ ndestroy = 1
    /\ \E w \in Range(w_all) :
          /\ w_data[w].w_name = "process lock"
          /\ w_data[w].w_refcount = 2
          /\ Cardinality(LiveLocksOf(w)) = 1

\* The held-lock lists: one of blockable locks for each process, one of
\* non-blockable locks for each processor.
AllLists == { SleepList(q) : q \in Procs } \cup { SpinList(q) : q \in Procs }

\* C19: a witness_lock or witness_unlock call of process p changes no
\* held-lock list but the one the lock belongs on: p's own list for a
\* blockable lock, the list of p's processor for a non-blockable one.
C19_ListsIsolated ==
    [][\A p \in Procs, lock \in Locks :
         ( \/ \E flags \in {{}, {"LOP_TRYLOCK"}} : MtxLock(p, lock, flags)
           \/ \E flags \in {{}, {"LOP_NOSWITCH"}} : MtxUnlock(p, lock, flags) )
         => \A l \in AllLists \ {LockListOf(Mem, p, lock)} :
               /\ ListHead(Mem', l) = ListHead(Mem, l)
               /\ LockChain(Mem', ListHead(Mem', l)) = LockChain(Mem, ListHead(Mem, l))
               /\ HeldScan(Mem', l) = HeldScan(Mem, l)]_vars

\* Process 1 holds the blockable lock and process 2 a non-blockable one.
C19_Witness ==
    /\ HeldScan(Mem, SleepList(1)) # << >>
    /\ HeldScan(Mem, SpinList(2)) # << >>
    /\ HeldScan(Mem, SleepList(2)) = << >>
    /\ HeldScan(Mem, SpinList(1)) = << >>

\* The shared fields that the calls the processes can make in this state
\* write while w_mtx is not held.
UnheldStores ==
    UNION (
      { mtx_lock(Mem, p, lock, flags, "file.c", line, 0).unheld :
          p \in Procs,
          lock \in { l \in Range(all_locks) : mtx_owner[l] = NULL },
          flags \in {{}, {"LOP_TRYLOCK"}}, line \in Sites }
      \cup
      { mtx_unlock(Mem, p, lock, {}).unheld :
          p \in Procs, lock \in { l \in Locks : mtx_owner[l] # NULL } }
      \cup
      { witness_destroy(Mem, lock).unheld :
          lock \in { l \in Locks : mtx_owner[l] = NULL } } )

\* C20: every store to shared verifier state (registry lists, child sets,
\* free lists, reference count, squawk flags, last-acquisition site) is made
\* with w_mtx held by the storing context.
C20_SharedStoresUnderMutex ==
    (witness_cold = 0 /\ panicstr = NoStr) => UnheldStores = {}

\* Witness a lists n as a child and also reaches n through another child.
Redundant(a, n) ==
    /\ isitmychild(Mem, a, n)
    /\ \E i \in DOMAIN ChildrenOf(Mem, a) :
          isitmydescendant(Mem, ChildrenOf(Mem, a)[i], n)

ListsTwice(a) ==
    \E i, j \in DOMAIN ChildrenOf(Mem, a) :
        i # j /\ ChildrenOf(Mem, a)[i] = ChildrenOf(Mem, a)[j]

\* C21: pruning yields a minimal graph.  The graph changes only in
\* itismychild, so after every top-level itismychild that returned 0, and in
\* every state after startup, no witness is both a direct child of a witness
\* and reachable from it through a path of two or more edges, and no witness
\* lists a child twice.
C21_GraphMinimal ==
    witness_cold = 0 =>
        \A a \in Witnesses :
            /\ ~ListsTwice(a)
            /\ \A n \in Witnesses : ~Redundant(a, n)

\* X was learned as a child of Giant and then as a child of "process lock",
\* or as a child of "process lock" alone: it is a descendant of Giant through
\* "process lock" and not a child of Giant.
C21_Witness ==
    \E g, pl, x \in Range(w_all) :
        /\ w_data[g].w_name = "Giant"
        /\ w_data[pl].w_name = "process lock"
        /\ w_data[x].w_name = "X"
        /\ isitmychild(Mem, g, pl)
        /\ isitmychild(Mem, pl, x)
        /\ ~isitmychild(Mem, g, x)

\* Giant, "process lock" and X, used, destroyed and set up again by one
\* process.
SpecGXLife == InitGX /\ [][NextLife]_vars

\* C22: reachability only grows: a witness that is a descendant of another
\* in some state is a descendant of it after every step, the steps of the
\* pruning pass of itismychild and of witness_destroy included.
C22_ReachabilityGrows ==
    [][\A a, b \in Witnesses :
           isitmydescendant(Mem, a, b) => isitmydescendant(Mem', a, b)]_vars

\* The witness of X was retired by witness_destroy after its edge from Giant
\* was pruned, and it is still a descendant of Giant through "process lock".
C22_Witness ==
    \E g, pl, x \in Range(w_all) :
        /\ w_data[g].w_name = "Giant"
        /\ w_data[pl].w_name = "process lock"
        /\ w_data[x].w_name = "(dead)"
        /\ isitmychild(Mem, pl, x)
        /\ ~isitmychild(Mem, g, x)
        /\ isitmydescendant(Mem, g, x)

\* A lock on the list that lock would go on has a witness that is a
\* descendant of the witness of lock.
HeldBelow(p, lock) ==
    \E l \in Range(HeldScan(Mem, LockListOf(Mem, p, lock))) :
        /\ lo[l].lo_witness # NULL
        /\ isitmydescendant(Mem, lo[lock].lo_witness, lo[l].lo_witness)

\* Process p takes lock with a blocking, non-recursed acquire that returns,
\* while its most recent held lock has another witness.
AcquireAfterOther(p, lock) ==
    /\ Acquire(p, lock)
    /\ witness_watch = 1
    /\ panicstr' = NoStr
    /\ lo[lock].lo_witness # NULL
    /\ TopHeld(p, lock) # NULL
    /\ lo[TopHeld(p, lock)].lo_witness \notin {NULL, lo[lock].lo_witness}

\* C23 as stated: after a blocking, non-recursed witness_lock of a lock with
\* witness w by a context whose most recent held lock has witness t # w, w
\* is a descendant of t when no held lock's witness is a descendant of w,
\* and the graph is unchanged when one is.
C23_ObservedOrderLearned ==
    [][\A p \in Procs, lock \in Locks :
         AcquireAfterOther(p, lock) =>
            IF HeldBelow(p, lock) THEN Edges' = Edges
            ELSE isitmydescendant(Mem', lo[TopHeld(p, lock)].lo_witness,
                                  lo[lock].lo_witness)]_vars

\* C23, amended: as stated, unless the new edge needs a child chunk and the
\* pool has none: then the call sets witness_dead and leaves the graph
\* unchanged.
C23_ObservedOrderLearnedOrDead ==
    [][\A p \in Procs, lock \in Locks :
         AcquireAfterOther(p, lock) =>
            IF HeldBelow(p, lock) THEN Edges' = Edges /\ witness_dead' = 0
            ELSE \/ /\ witness_dead' = 0
                    /\ isitmydescendant(Mem', lo[TopHeld(p, lock)].lo_witness,
                                        lo[lock].lo_witness)
                 \/ /\ witness_dead' = 1
                    /\ w_child_free = NULL
                    /\ Edges' = Edges]_vars

\* An order was learned beyond the seeded ones, and a later attempt to learn
\* one found the child pool empty.
C23_Witness ==
    /\ witness_dead = 1
    /\ w_child_free = NULL
    /\ \E e \in Edges :
          {w_data[e[1]].w_name, w_data[e[2]].w_name} \subseteq {"A", "B", "C"}

\* "process lock", which the seeding puts below Giant, and two names that no
\* order list has, used by one process in runs with witness_watch 1 and runs
\* with witness_watch 2.
UnivLevel == << MtxS("process lock"), MtxS("H"), MtxS("T") >>
InitLevel == InitWith({UnivLevel}, {1, 2})
NextSolo == Use({1})
SpecLevel == InitLevel /\ [][NextSolo]_vars

\* The lock-order reports that a blocking acquire of the free lock by p
\* prints when it runs with witness_watch set to watch.
ReportedAt(watch, p, lock) ==
    { r \in Range(mtx_lock([Mem EXCEPT !.witness_watch = watch], p, lock, {},
                           "file.c", 1, 0).out) : r.kind = "order" }

\* C24: the level fast path does not change outcomes: in every reachable
\* state, every acquisition reports with witness_watch > 1 exactly what it
\* reports with witness_watch = 1.
C24_FastPathSameReports ==
    (witness_cold = 0 /\ witness_dead = 0 /\ panicstr = NoStr) =>
        \A lock \in Range(all_locks) :
            mtx_owner[lock] = NULL =>
                ReportedAt(2, 1, lock) = ReportedAt(1, 1, lock)

ParentsOf(w) == { a \in Witnesses : isitmychild(Mem, a, w) }

MaxLevel(S) == CHOOSE n \in 0..WITNESS_COUNT :
                   /\ \E a \in S : w_data[a].w_level = n
                   /\ \A a \in S : w_data[a].w_level <= n

\* C25: level assignment.  The levels change only in witness_levelall, which
\* every successful top-level itismychild runs last, and the graph changes
\* only there too: in every state a witness with no parent has level 0, and
\* every other witness has level 1 + the largest level of its direct
\* parents, so every child is on a higher level than its parent.
C25_LevelsAreLongestPaths ==
    \A w \in Range(w_all) :
        /\ w_data[w].w_level =
              IF ParentsOf(w) = {} THEN 0 ELSE 1 + MaxLevel(ParentsOf(w))
        /\ \A a \in ParentsOf(w) : w_data[w].w_level > w_data[a].w_level

\* X is a child of "process lock" alone and on level 2, Giant being on level
\* 0 and "process lock" on level 1.
C25_Witness ==
    \E g, pl, x \in Range(w_all) :
        /\ w_data[g].w_name = "Giant" /\ w_data[g].w_level = 0
        /\ w_data[pl].w_name = "process lock" /\ w_data[pl].w_level = 1
        /\ w_data[x].w_name = "X" /\ w_data[x].w_level = 2
        /\ ParentsOf(x) = {pl}

\* C26: registry uniqueness: no two witnesses of the global set carry the
\* same name, and enroll of a name with its class returns the witness that a
\* lock of that name was bound to, also after every lock of that name was
\* destroyed (witness_destroy leaves lo_witness of the destroyed lock alone).
C26_OneWitnessPerName ==
    (witness_cold = 0 /\ witness_dead = 0 /\ panicstr = NoStr) =>
        /\ \A i, j \in DOMAIN w_all :
              i # j => w_data[w_all[i]].w_name # w_data[w_all[j]].w_name
        /\ \A lock \in Locks :
              lo[lock].lo_witness # NULL =>
                  enroll(Mem, locks[lock].lo_name, locks[lock].lo_class).ret
                      = lo[lock].lo_witness

Occurrences(list, w) == Cardinality({ i \in DOMAIN list : list[i] = w })

IsSpinClass(w) == "LC_SPINLOCK" \in lc_flags(w_data[w].w_class)

\* C27: partition separation: every witness of the global set is once on
\* the type list of its class and not on the other, every edge joins two
\* witnesses on the same type list, and the mixed-type panic of itismychild
\* never happens.
C27_PartitionsSeparate ==
    /\ panicstr # "itismychild: not the same lock type"
    /\ panicstr = NoStr =>
        /\ \A w \in Range(w_all) :
              /\ Occurrences(w_spin, w) = (IF IsSpinClass(w) THEN 1 ELSE 0)
              /\ Occurrences(w_sleep, w) = (IF IsSpinClass(w) THEN 0 ELSE 1)
        /\ \A e \in Edges : IsSpinClass(e[1]) = IsSpinClass(e[2])

\* A process holds the sleepable lock and, taken after it, both spin locks,
\* and the last witness_lock did not panic.
C27_Witness ==
    /\ panicstr = NoStr
    /\ witness_dead = 0
    /\ \E p \in Procs :
          /\ Len(HeldScan(Mem, SleepList(p))) = 1
          /\ Len(HeldScan(Mem, SpinList(p))) = 2
    /\ \E e \in Edges : IsSpinClass(e[1])
    /\ \E w \in Range(w_all) : ~IsSpinClass(w) /\ w_data[w].w_name = "G"

\* The chunk of list l that holds lock, or NULL.
ChunkWith(l, lock) ==
    LET ch == LockChain(Mem, ListHead(Mem, l))
        k == FirstIdx(ch, LAMBDA c : lock \in Range(w_locklistdata[c].ll_children))
    IN IF k = 0 THEN NULL ELSE ch[k]

\* witness_unlock of the non-recursed lock, which is on p's list, returns.
ReleaseListed(p, lock, flags) ==
    /\ MtxUnlock(p, lock, flags)
    /\ witness_cold = 0 /\ witness_dead = 0
    /\ lo[lock].lo_witness # NULL
    /\ "LO_RECURSED" \notin lo[lock].lo_flags
    /\ ChunkWith(LockListOf(Mem, p, lock), lock) # NULL
    /\ panicstr' = NoStr

NoEmptyChunk ==
    \A l \in AllLists :
        \A c \in Range(LockChain(Mem, ListHead(Mem, l))) :
            w_locklistdata[c].ll_children # << >>

\* C28: release by identity preserves order.  witness_unlock of a held,
\* non-recursed, watched lock removes the one entry equal to the lock and
\* keeps the other entries in their order; the chunk that held it goes back
\* to the free list exactly when the lock was its only entry; and no chunk
\* on any list is ever empty.
C28_ReleaseByIdentity ==
    /\ [][\A p \in Procs, lock \in Locks, flags \in {{}, {"LOP_NOSWITCH"}} :
            ReleaseListed(p, lock, flags) =>
                LET l == LockListOf(Mem, p, lock)
                    c == ChunkWith(l, lock)
                IN /\ HeldScan(Mem', l) = Remove(HeldScan(Mem, l), lock)
                   /\ Len(HeldScan(Mem', l)) = Len(HeldScan(Mem, l)) - 1
                   /\ IF Len(w_locklistdata[c].ll_children) = 1
                      THEN /\ w_lock_list_free' = c
                           /\ c \notin Range(LockChain(Mem', ListHead(Mem', l)))
                      ELSE /\ w_lock_list_free' = w_lock_list_free
                           /\ LockChain(Mem', ListHead(Mem', l))
                                = LockChain(Mem, ListHead(Mem, l))]_vars
    /\ []NoEmptyChunk

\* The same release property without the claim that no chunk is ever empty.
C28_ReleaseSteps ==
    [][\A p \in Procs, lock \in Locks, flags \in {{}, {"LOP_NOSWITCH"}} :
            ReleaseListed(p, lock, flags) =>
                /\ HeldScan(Mem', LockListOf(Mem, p, lock))
                     = Remove(HeldScan(Mem, LockListOf(Mem, p, lock)), lock)
                /\ Len(HeldScan(Mem', LockListOf(Mem, p, lock)))
                     = Len(HeldScan(Mem, LockListOf(Mem, p, lock))) - 1]_vars

\* Memory after process p takes the free lock with a try-lock, which goes
\* straight to the label out, when the out-of-bounds store has outcome ub.
AfterTry(p, lock, ub) == mtx_lock(Mem, p, lock, {"LOP_TRYLOCK"}, "file.c", 1, ub)

\* C29: held-lock chunks respect their capacity: witness_lock starts a new
\* chunk whenever the head chunk of the list is full, so the acquired lock
\* becomes the most recent entry of the list, every other entry stays, no
\* chunk has more than LOCK_NCHILDREN entries and no store goes past the end
\* of ll_children.
C29_ChunkCapacity ==
    (witness_cold = 0 /\ witness_dead = 0 /\ panicstr = NoStr) =>
        /\ \A c \in DOMAIN w_locklistdata :
              Len(w_locklistdata[c].ll_children) <= LOCK_NCHILDREN
        /\ \A p \in Procs, lock \in Range(all_locks), ub \in UBOutcomes :
              ( /\ mtx_owner[lock] = NULL
                /\ lo[lock].lo_witness # NULL
                /\ w_lock_list_free # NULL
                /\ AfterTry(p, lock, ub).panicstr
                      # "witness_lock: blockable sleep lock" )
              => /\ AfterTry(p, lock, ub).panicstr = NoStr
                 /\ HeldScan(AfterTry(p, lock, ub), LockListOf(Mem, p, lock))
                      = << lock >> \o HeldScan(Mem, LockListOf(Mem, p, lock))

Watched(lock) ==
    witness_cold = 0 /\ witness_dead = 0 /\ lo[lock].lo_witness # NULL

OnList(p, lock) == lock \in Range(HeldScan(Mem, LockListOf(Mem, p, lock)))

ListsAndGraphUnchanged ==
    /\ p_sleeplocks' = p_sleeplocks
    /\ spinlocks' = spinlocks
    /\ w_locklistdata' = w_locklistdata
    /\ w_lock_list_free' = w_lock_list_free
    /\ w_childdata' = w_childdata
    /\ Edges' = Edges

FirstAcquire(p, lock) ==
    /\ mtx_owner[lock] = NULL
    /\ \E flags \in {{}, {"LOP_TRYLOCK"}} : MtxLock(p, lock, flags)

FinalRelease(p, lock) ==
    /\ mtx_recurse[lock] = 0
    /\ \E flags \in {{}, {"LOP_NOSWITCH"}} : MtxUnlock(p, lock, flags)

\* The steps of the lock-instance state machine: recursive acquires and
\* releases leave lists and graph alone or panic, the first acquire puts
\* the lock on the list, the final release takes it off, and no other step
\* changes whether the lock is on the list (witness_initialize ends with
\* mtx_lock(&Giant), the first acquire of Giant that is checked).
C30_InstanceSteps ==
    [][\A p \in Procs, lock \in Locks :
         /\ (Watched(lock) /\ mtx_owner[lock] = p /\ MtxLock(p, lock, {})) =>
               IF "LO_RECURSABLE" \in lo[lock].lo_flags
               THEN ListsAndGraphUnchanged /\ panicstr' = NoStr
               ELSE panicstr' = "witness_lock: recursed on non-recursive lock"
         /\ ( /\ Watched(lock) /\ mtx_recurse[lock] > 0
              /\ \E flags \in {{}, {"LOP_NOSWITCH"}} : MtxUnlock(p, lock, flags) )
               => ListsAndGraphUnchanged /\ panicstr' = NoStr
         /\ (Watched(lock) /\ FirstAcquire(p, lock) /\ panicstr' = NoStr)
               => lock \in Range(HeldScan(Mem', LockListOf(Mem, p, lock)))
         /\ (Watched(lock) /\ FinalRelease(p, lock) /\ panicstr' = NoStr)
               => lock \notin Range(HeldScan(Mem', LockListOf(Mem, p, lock)))
         /\ OnList(p, lock) # (lock \in Range(HeldScan(Mem', LockListOf(Mem, p, lock))))
               => \/ FirstAcquire(p, lock)
                  \/ FinalRelease(p, lock)
                  \/ WitnessInitialize /\ p = 1 /\ lock = GiantOf(Mem)]_vars

NoLockTwice ==
    \A l \in AllLists :
        \A i, j \in DOMAIN HeldScan(Mem, l) :
            i # j => HeldScan(Mem, l)[i] # HeldScan(Mem, l)[j]

\* C30: lock-instance state machine on the held list.  A recursive acquire
\* or release of a recursable lock changes neither the held-lock lists nor
\* the graph, a recursive acquire of a non-recursable lock panics, a lock is
\* on its context's list from its first non-recursed acquire until its
\* final release, and it is never there twice.
C30_InstanceOnListOnce == C30_InstanceSteps /\ []NoLockTwice

FreeChildChunks == ChildChain(Mem, w_child_free)

\* The child chunks in use, chain after chain, and the held-lock chunks in
\* use, list after list.
RECURSIVE UsedChildChunks(_)
UsedChildChunks(w) ==
    IF w > WITNESS_COUNT THEN << >>
    ELSE ChildChain(Mem, w_data[w].w_children) \o UsedChildChunks(w + 1)

RECURSIVE UsedLockChunks(_)
UsedLockChunks(p) ==
    IF p > NPROC THEN << >>
    ELSE LockChain(Mem, p_sleeplocks[p]) \o LockChain(Mem, spinlocks[p])
            \o UsedLockChunks(p + 1)

\* The sequence s names every element of 1..n once.
EachOnce(s, n) == Len(s) = n /\ Range(s) = 1..n

\* C31: pool conservation.  Once witness_initialize has filled the pools,
\* every child chunk is on the child free list or in the chain of one
\* witness, every held-lock chunk is on the lock-list free list or in one
\* context's list, none is in two places, and free plus in-use chunks are
\* WITNESS_CHILDCOUNT and LOCK_CHILDCOUNT.
C31_PoolsConserved ==
    (witness_cold = 0 /\ panicstr = NoStr) =>
        /\ EachOnce(FreeChildChunks \o UsedChildChunks(1), WITNESS_CHILDCOUNT)
        /\ EachOnce(LockChain(Mem, w_lock_list_free) \o UsedLockChunks(1),
                    LOCK_CHILDCOUNT)

\* All child chunks are in chains, one of them taken again after the pruning
\* pass freed it, and both processes have a chunk on a list.
C31_Witness ==
    /\ witness_cold = 0 /\ panicstr = NoStr
    /\ FreeChildChunks = << >>
    /\ Len(UsedLockChunks(1)) >= 2
    /\ \E w \in Range(w_all) :
          w_data[w].w_name = "process lock" /\ w_data[w].w_children # NULL

\* C33: the assertion MPASS(j < 1000) of isitmydescendant never fails, and
\* isitmydescendant returns for every pair of witnesses in every reachable
\* graph.
C33_DescentBounded ==
    \A a, b \in Range(w_all) :
        /\ ~DescendTrips(Mem, a, b, 0)
        /\ ~DescendRunaway(Mem, a, b, 0)

\* The graph has a path of two edges and a witness off it: the search for
\* that witness from the top of the path visits every descendant and
\* returns 0.
C33_Witness ==
    \E a, b, c, d \in Range(w_all) :
        /\ isitmychild(Mem, a, b)
        /\ isitmychild(Mem, b, c)
        /\ ~SameLockType(Mem, a, d)
        /\ ~isitmydescendant(Mem, a, d)

C35_InternalLockBalanced ==
    /\ mtx_err = FALSE
    /\ panicstr = NoStr => w_mtx = 0

\* enroll found the witness pool empty: witness_get released w_mtx on its
\* exhaustion path, and the call returned with w_mtx free.
C35_Witness ==
    /\ panicstr = NoStr
    /\ witness_dead = 1
    /\ w_mtx = 0
    /\ \E r \in DOMAIN reports : r.kind = "exhausted" /\ r.n = "witness_get"

\* The one process of SpecDeep also makes try-lock acquisitions.
NextDeepTry ==
    \/ NextDeep
    \/ \E lock \in Locks : MtxLock(1, lock, {"LOP_TRYLOCK"})
SpecDeepTry == InitDeep /\ [][NextDeepTry]_vars

\* The free lock has a witness and the verifier is running: a try-lock of
\* it by any process reaches witness_lock's checks.
TryLockable(lock) ==
    /\ panicstr = NoStr
    /\ Watched(lock)
    /\ lock \in Range(all_locks)
    /\ mtx_owner[lock] = NULL

\* Memory m, left by a call, has no lock-order or duplicate report, the
\* squawk flags of the current state and its order graph.
SilentCall(m) ==
    /\ \A i \in DOMAIN m.out : m.out[i].kind \notin {"order", "dup"}
    /\ \A w \in Witnesses :
          /\ m.w_data[w].w_same_squawked = w_data[w].w_same_squawked
          /\ m.w_data[w].w_other_squawked = w_data[w].w_other_squawked
          /\ m.w_data[w].w_Giant_squawked = w_data[w].w_Giant_squawked
          /\ m.w_data[w].w_children = w_data[w].w_children
    /\ m.w_childdata = w_childdata

\* Memory m, left by an acquire of lock by p, has the lock as the most
\* recent entry of p's list, before the entries the list had.
PushedOn(m, p, lock) ==
    HeldScan(m, LockListOf(Mem, p, lock))
        = << lock >> \o HeldScan(Mem, LockListOf(Mem, p, lock))

\* A try-lock reports nothing, sets no squawk flag and leaves the graph.
TryLockSilent ==
    \A p \in Procs, lock \in Locks, ub \in UBOutcomes :
        TryLockable(lock) => SilentCall(AfterTry(p, lock, ub))

\* C36: a try-lock acquisition never reports a violation or a duplicate,
\* never sets a squawk flag and never changes the order graph, but it is
\* pushed on the calling context's held-lock list, where later acquisitions
\* check against it like any other held lock.  Stated for try-locks that
\* return while a chunk is at hand.
C36_TryLockPushedSilently ==
    /\ TryLockSilent
    /\ \A p \in Procs, lock \in Locks, ub \in UBOutcomes :
          ( /\ TryLockable(lock)
            /\ w_lock_list_free # NULL
            /\ AfterTry(p, lock, ub).panicstr
                  # "witness_lock: blockable sleep lock" )
          => /\ AfterTry(p, lock, ub).panicstr = NoStr
             /\ PushedOn(AfterTry(p, lock, ub), p, lock)

IsSleepClass(lock) == "LC_SLEEPLOCK" \in lc_flags(locks[lock].lo_class)

\* The blockable list of p has, after the step, a lock it did not have, or
\* more entries than it had.
SleepListGained(p) ==
    \/ Range(HeldScan(Mem', SleepList(p))) \ Range(HeldScan(Mem, SleepList(p))) # {}
    \/ Len(HeldScan(Mem', SleepList(p))) > Len(HeldScan(Mem, SleepList(p)))

\* A first acquire of a watched sleep-class lock by a context whose
\* processor has spin locks on its list ends in the panic of witness_lock.
BlockableAfterSpinPanics ==
    \A p \in Procs, lock \in Locks, flags \in {{}, {"LOP_TRYLOCK"}} :
        ( /\ TryLockable(lock)
          /\ IsSleepClass(lock)
          /\ spinlocks[p] # NULL )
        => mtx_lock(Mem, p, lock, flags, "file.c", 1, 0).panicstr
              = "witness_lock: blockable sleep lock"

\* C37: a blockable lock is never pushed while a non-blockable lock is
\* held: witness_lock on a watched sleep-class lock panics when the
\* processor's spin-lock list is not empty, and no step adds an entry to a
\* context's blockable list while that list is not empty.
C37_NoBlockableOverSpin ==
    /\ [][\A p \in Procs : SleepListGained(p) => spinlocks[p] = NULL]_vars
    /\ []BlockableAfterSpinPanics

\* A context took the sx lock while its processor held a spin lock, and
\* witness_lock stopped the run; the sx lock is on no list.
C37_Witness ==
    /\ panicstr = "witness_lock: blockable sleep lock"
    /\ \E p \in Procs, lock \in Locks :
          /\ spinlocks[p] # NULL
          /\ IsSleepClass(lock)
          /\ mtx_owner[lock] = p
          /\ ~OnList(p, lock)

\* The debugger's graph dump, and its listing of the locks process p holds.
WitnessDisplay ==
    /\ panicstr = NoStr
    /\ Commit(witness_display(Mem).m, "witness_display")

WitnessList(p) ==
    /\ panicstr = NoStr
    /\ \E curproc \in Procs :
          Commit(witness_list(Mem, p, curproc).m, "witness_list")

\* Giant, "process lock" and X used by two processes, with the dump and the
\* listing called at any time.
NextShow ==
    \/ Next
    \/ WitnessDisplay
    \/ \E p \in Procs : WitnessList(p)
SpecShow == InitGX /\ [][NextShow]_vars

\* Memory m, left by a call, is the memory of the current state: the call
\* wrote nothing but its output.
SameMemory(m) == [m EXCEPT !.out = << >>, !.unheld = {}] = Mem

\* C38: the reporting operations are pure: witness_display and witness_list
\* leave the order graph, every witness's level and squawk flags, all
\* held-lock lists and all pools exactly as they were before the call.
C38_ReportingPure ==
    witness_cold = 0 =>
        /\ SameMemory(witness_display(Mem).m)
        /\ \A p \in Procs, curproc \in Procs :
              SameMemory(witness_list(Mem, p, curproc).m)

\* The dump and the listing have something to show: the graph has an edge
\* beyond the seeded ones, a witness has a level above 1, and a process
\* holds two locks.
C38_Witness ==
    /\ witness_cold = 0
    /\ panicstr = NoStr
    /\ \E w \in Range(w_all) : w_data[w].w_level > 1
    /\ \E p \in Procs : witness_list(Mem, p, p).ret >= 2
    /\ Len(witness_display(Mem).ret) >= 3

\* witness_lock can pass the pair to itismychild: two enrolled witnesses of
\* one lock type, neither a descendant of the other, while the verifier is
\* running and w_mtx is free.
CanOrder(parent, child) ==
    /\ witness_cold = 0
    /\ witness_dead = 0
    /\ panicstr = NoStr
    /\ w_mtx = 0
    /\ parent \in Range(w_all)
    /\ child \in Range(w_all)
    /\ parent # child
    /\ SameLockType(Mem, parent, child)
    /\ ~isitmydescendant(Mem, parent, child)
    /\ ~isitmydescendant(Mem, child, parent)

\* itismychild(parent, child) called with w_mtx held, as witness_lock does.
OrderedAfter(parent, child) == itismychild(mtx_lock_spin(Mem), parent, child)

\* The pass that follows a successful insertion ran to its end with w_mtx
\* held throughout and the pool never found empty.
PassUndisturbed(g) ==
    g.ret = 0 =>
        /\ g.m.panicstr = NoStr
        /\ g.m.witness_dead = 0
        /\ g.m.w_mtx = 1
        /\ g.m.mtx_err = FALSE
        /\ g.m.out = << >>

\* C39: pruning never fails to restore a needed edge: in the pruning pass
\* of itismychild every nested itismychild that puts back an edge removed by
\* removechild finds a free slot or a free chunk, so the pass never finds
\* the child pool empty, never sets witness_dead and never releases w_mtx.
C39_PruningRestoresEdges ==
    \A parent \in Witnesses, child \in Witnesses :
        CanOrder(parent, child) => PassUndisturbed(OrderedAfter(parent, child))

\* The insertion took the last free chunk, and the pass took apart and put
\* back an edge whose parent has that one child: the chunk removechild
\* freed is the one the nested itismychild got.
C39_Witness ==
    \E parent \in Witnesses, child \in Witnesses :
        /\ CanOrder(parent, child)
        /\ OrderedAfter(parent, child).ret = 0
        /\ InsertChild(mtx_lock_spin(Mem), parent, child).m.w_child_free = NULL
        /\ \E x \in Range(w_all), y \in Range(w_all) :
              /\ x # parent
              /\ ChildrenOf(Mem, x) = << y >>
              /\ ChildrenOf(OrderedAfter(parent, child).m, x) = << y >>

====
